---- MODULE Spec2Model ----
(***************************************************************************)
(* Quiz model, scoring engine and student-progress tracker of AILND.       *)
(*                                                                         *)
(*   SpecValidate      the validators of internal/custom_types/quiz.py     *)
(*   SpecScore         calculate_quiz_score of pages/take_quiz.py          *)
(*   SpecScoreTwice    the same call made a second time                    *)
(*   SpecQuizPage      display_quiz: the widgets, the feedback, the score  *)
(*   Spec              StudentProgressHandler / StudentProgressRepository, *)
(*                     two sessions interleaving                           *)
(*   SpecSingleWriter  the same handlers, one call at a time               *)
(*   SpecSerialize     to_dict / from_dict of the quiz model               *)
(*   SpecValidateAny   the validators on fields of any Python type         *)
(*   SpecEditor        pages/quiz_editor.py, run by run                    *)
(*   SpecRemove        manage_quiz_questions on any in-edit quiz           *)
(*   SpecPages         the student pages, one browser session              *)
(*                                                                         *)
(* Python str values are sequences of one-character strings, so that       *)
(* strip(), lower(), split() and int() are computed and not assumed.       *)
(***************************************************************************)
EXTENDS Integers, Sequences, FiniteSets, TLC

VARIABLES
    \* --- validators (internal/custom_types/quiz.py)
    vobj,                 \* the object validate() is called on
    vPc,                  \* "new" | "done"
    vresult,              \* what validate() returned
    \* --- calculate_quiz_score (pages/take_quiz.py)
    quiz_data,            \* the stored quiz, or None
    answers,              \* Dict[str, str]
    scorePc,              \* "start" | "loop" | "returned" | "raised"
    idx,                  \* i of the enumerate() loop
    correct_answers,
    incorrect_questions,
    score,                \* the returned percentage, a fraction <<num, den>>
    \* --- progress tracker (internal/{handlers,repository}/student_progress.py)
    store,                \* rows of table student_course_tracker
    sess,                 \* per session: the handler call in progress
    clock,                \* datetime.utcnow()
    calls,                \* handler calls made so far
    \* --- to_dict / from_dict (internal/custom_types/quiz.py)
    sobj,                 \* the object to_dict() is called on
    srec,                 \* the record: to_dict()'s result, perhaps with a key lost
    sresult,              \* what from_dict() returned or raised
    sPc,                  \* "new" | "serialized" | "damaged" | "done"
    \* --- a second scoring call on the same arguments
    first_call,           \* what the first call returned, or None
    \* --- display_quiz (pages/take_quiz.py)
    widgets,              \* per question: the radio selection or the text typed
    feedback,             \* per question: "Correct" | "Incorrect"
    \* --- quiz editor (pages/quiz_editor.py)
    quiz,                 \* st.session_state.quiz
    ai_generated_questions,
    quiz_loaded,
    selected_quiz_type,   \* the value of the "Select Quiz Type" selectbox
    selected_section_id,  \* the section the editor page is open on
    section_quiz,         \* per section: its stored quiz row, or None
    questions_to_delete,  \* the indices marked in the last removal
    \* --- student pages (pages/course_index.py, take_content.py, take_quiz.py)
    sections,             \* the lesson types of the course's sections, in order
    current_page,
    current_section_index,
    quiz_submitted

vars == <<vobj, vPc, vresult, quiz_data, answers, scorePc, idx, correct_answers,
          incorrect_questions, score, store, sess, clock, calls,
          sobj, srec, sresult, sPc, first_call, widgets, feedback,
          quiz, ai_generated_questions, quiz_loaded, selected_quiz_type,
          selected_section_id, section_quiz, questions_to_delete, sections, current_page, current_section_index,
          quiz_submitted>>

validateVars == <<vobj, vPc, vresult>>
scoreVars == <<quiz_data, answers, scorePc, idx, correct_answers,
               incorrect_questions, score>>
trackerVars == <<store, sess, clock, calls>>
serializeVars == <<sobj, srec, sresult, sPc>>
replayVars == <<first_call>>
quizPageVars == <<widgets, feedback>>
editorVars == <<quiz, ai_generated_questions, quiz_loaded, selected_quiz_type,
                selected_section_id, section_quiz, questions_to_delete>>
pageVars == <<sections, current_page, current_section_index, quiz_submitted>>
uiVars == <<replayVars, quizPageVars, editorVars, pageVars>>

\* Python's None, where a bool, a str/tuple or an object is expected
None == "None"
NoneSeq == <<"None">>
NoneObj == [cls |-> "NoneType"]

(***************************************************************************)
(* Bounds                                                                  *)
(***************************************************************************)
MaxQuestions == 2
MaxOptions == 3
MaxSegments == 3
MaxIndex == 1
MaxClock == 1
MaxCalls == 2

(***************************************************************************)
(* Python str                                                              *)
(***************************************************************************)
Whitespace == {" "}

RECURSIVE LStrip(_)
LStrip(s) ==
    IF s # <<>> /\ Head(s) \in Whitespace THEN LStrip(Tail(s)) ELSE s

RECURSIVE RStrip(_)
RStrip(s) ==
    IF s # <<>> /\ s[Len(s)] \in Whitespace
    THEN RStrip(SubSeq(s, 1, Len(s) - 1))
    ELSE s

\* str.strip()
Strip(s) == RStrip(LStrip(s))

LowerChar(c) ==
    CASE c = "P" -> "p"
      [] c = "A" -> "a"
      [] c = "R" -> "r"
      [] c = "I" -> "i"
      [] c = "S" -> "s"
      [] OTHER -> c

\* mutant of Lower: the comparison is left case-sensitive
Lower_NoFold(s) == s

\* str.lower()
Lower(s) == [k \in 1..Len(s) |-> LowerChar(s[k])]

\* bool(s): the truth value of a str
Truthy(s) == s # <<>>

\* sub in s
Contains(s, sub) ==
    \E k \in 1..(Len(s) - Len(sub) + 1) : SubSeq(s, k, k + Len(sub) - 1) = sub

\* len(s.split(sep)): the separators are found left to right, not overlapping
RECURSIVE SplitParts(_, _)
SplitParts(s, sep) ==
    IF Len(s) < Len(sep) THEN 1
    ELSE IF SubSeq(s, 1, Len(sep)) = sep
         THEN 1 + SplitParts(SubSeq(s, Len(sep) + 1, Len(s)), sep)
         ELSE SplitParts(Tail(s), sep)

BlankMarker == <<"_", "_", "_", "_", "_">>

DigitChars == <<"0", "1", "2", "3", "4", "5", "6", "7", "8", "9">>
IsDigit(c) == \E d \in 1..Len(DigitChars) : DigitChars[d] = c
DigitValue(c) == (CHOOSE d \in 1..Len(DigitChars) : DigitChars[d] = c) - 1

\* str(i) of an int i >= 0
RECURSIVE StrOfInt(_)
StrOfInt(i) ==
    IF i < Len(DigitChars) THEN <<DigitChars[i + 1]>>
    ELSE Append(StrOfInt(i \div Len(DigitChars)), DigitChars[(i % Len(DigitChars)) + 1])

\* the value of a run of decimal digits, "_" separators skipped
RECURSIVE DigitsValue(_, _)
DigitsValue(s, acc) ==
    IF s = <<>> THEN acc
    ELSE IF Head(s) = "_" THEN DigitsValue(Tail(s), acc)
    ELSE DigitsValue(Tail(s), acc * Len(DigitChars) + DigitValue(Head(s)))

\* digits, with single "_" allowed between two digits
IsDigitRun(s) ==
    /\ s # <<>>
    /\ IsDigit(s[1]) /\ IsDigit(s[Len(s)])
    /\ \A k \in 1..Len(s) : IsDigit(s[k]) \/ s[k] = "_"
    /\ \A k \in 1..(Len(s) - 1) : ~(s[k] = "_" /\ s[k + 1] = "_")

\* int(s) of a str: surrounding whitespace and one sign are accepted; anything
\* else raises ValueError (ok = FALSE)
ParseInt(s) ==
    LET t == Strip(s)
        signed == t # <<>> /\ Head(t) \in {"+", "-"}
        body == IF signed THEN Tail(t) ELSE t
    IN  IF IsDigitRun(body)
        THEN [ok |-> TRUE,
              val |-> IF signed /\ Head(t) = "-"
                      THEN 0 - DigitsValue(body, 0)
                      ELSE DigitsValue(body, 0)]
        ELSE [ok |-> FALSE, val |-> 0]

(***************************************************************************)
(* internal/custom_types/quiz.py                                           *)
(***************************************************************************)
MULTIPLE_CHOICE == "multiple_choice"
FILL_IN_THE_BLANK == "fill_in_the_blank"
QuizType == {MULTIPLE_CHOICE, FILL_IN_THE_BLANK}

MultipleChoiceQuestion(question, justification, options, correct_answer) ==
    [cls |-> "MultipleChoiceQuestion", question |-> question,
     justification |-> justification, options |-> options,
     correct_answer |-> correct_answer]

FillInBlankQuestion(question, justification, correct_answer) ==
    [cls |-> "FillInBlankQuestion", question |-> question,
     justification |-> justification, correct_answer |-> correct_answer]

Quiz(type, questions) == [cls |-> "Quiz", type |-> type, questions |-> questions]

\* mutant of MCValidate: correct_answer may be one past the last option
MCValidate_OffByOne(q) ==
    /\ Len(q.options) > 1
    /\ 0 <= q.correct_answer /\ q.correct_answer <= Len(q.options)
    /\ Truthy(Strip(q.question))
    /\ Truthy(Strip(q.justification))

\* MultipleChoiceQuestion.validate
MCValidate(q) ==
    /\ Len(q.options) > 1
    /\ 0 <= q.correct_answer /\ q.correct_answer < Len(q.options)
    /\ Truthy(Strip(q.question))
    /\ Truthy(Strip(q.justification))

\* FillInBlankQuestion.validate
FIBValidate(q) ==
    /\ Contains(q.question, BlankMarker)
    /\ Truthy(Strip(q.correct_answer))
    /\ Truthy(Strip(q.question))
    /\ Truthy(Strip(q.justification))

\* q.validate(), dispatched on the object's class
QuestionValidate(q) ==
    IF q.cls = "MultipleChoiceQuestion" THEN MCValidate(q) ELSE FIBValidate(q)

\* mutant of QuizValidate: the empty-quiz check is lost, all() of nothing is True
QuizValidate_NoEmptyCheck(qz) ==
    \A k \in 1..Len(qz.questions) : QuestionValidate(qz.questions[k])

\* Quiz.validate
QuizValidate(qz) ==
    IF qz.questions = <<>> THEN FALSE
    ELSE \A k \in 1..Len(qz.questions) : QuestionValidate(qz.questions[k])

(***************************************************************************)
(* Inputs of the validators                                                *)
(***************************************************************************)
TextPool == {<<>>, <<" ">>, <<"a">>, <<" ", "a", " ">>}

\* the k-th option text of a question form
OptionText(k) == [j \in 1..k |-> "o"]
OptionList(n) == [k \in 1..n |-> OptionText(k)]

Segments == {BlankMarker, <<"_">>, <<"a">>, <<" ">>}

RECURSIVE SegmentTexts(_)
SegmentTexts(n) ==
    IF n = 0 THEN {<<>>}
    ELSE LET shorter == SegmentTexts(n - 1)
         IN  shorter \cup {t \o g : t \in shorter, g \in Segments}

MCInputs ==
    {MultipleChoiceQuestion(qt, j, OptionList(n), c) :
        qt \in TextPool, j \in TextPool, n \in 0..MaxOptions, c \in -1..MaxOptions}

FIBInputs ==
    {FillInBlankQuestion(qt, j, c) :
        qt \in SegmentTexts(MaxSegments), j \in TextPool, c \in TextPool}

ValidMC == MultipleChoiceQuestion(<<"a">>, <<"a">>, OptionList(2), 1)
InvalidMC == MultipleChoiceQuestion(<<"a">>, <<"a">>, OptionList(2), 2)
ValidFIB == FillInBlankQuestion(<<"a">> \o BlankMarker, <<"a">>, <<"a">>)
InvalidFIB == FillInBlankQuestion(<<"a">>, <<"a">>, <<"a">>)
QuizQuestionPool == {ValidMC, InvalidMC, ValidFIB, InvalidFIB}

RECURSIVE SeqsUpTo(_, _)
SeqsUpTo(S, n) ==
    IF n = 0 THEN {<<>>}
    ELSE LET shorter == SeqsUpTo(S, n - 1)
         IN  shorter \cup {Append(t, x) : t \in shorter, x \in S}

QuizInputs ==
    {Quiz(t, qs) : t \in QuizType, qs \in SeqsUpTo(QuizQuestionPool, MaxQuestions)}

(***************************************************************************)
(* Idle values of the parts a specification does not exercise              *)
(***************************************************************************)
ValidateIdle == vobj = NoneObj /\ vPc = "done" /\ vresult = None

ScoreIdle ==
    /\ quiz_data = NoneObj /\ answers = <<>> /\ scorePc = "returned" /\ idx = 0
    /\ correct_answers = 0 /\ incorrect_questions = <<>> /\ score = <<0, 1>>

TrackerIdle == store = <<>> /\ sess = <<>> /\ clock = 0 /\ calls = 0

SerializeIdle ==
    sobj = NoneObj /\ srec = NoneObj /\ sresult = NoneObj /\ sPc = "done"

ReplayIdle == first_call = NoneObj

QuizPageIdle == widgets = <<>> /\ feedback = <<>>

EditorIdle ==
    /\ quiz = NoneObj /\ ai_generated_questions = <<>> /\ quiz_loaded = FALSE
    /\ selected_quiz_type = None /\ selected_section_id = None
    /\ section_quiz = NoneObj
    /\ questions_to_delete = {}

PageIdle ==
    /\ sections = <<>> /\ current_page = None /\ current_section_index = 0
    /\ quiz_submitted = FALSE

UiIdle == ReplayIdle /\ QuizPageIdle /\ EditorIdle /\ PageIdle

(***************************************************************************)
(* SpecValidate: validate() applied to one question or quiz                *)
(***************************************************************************)
InitValidate ==
    /\ vobj \in MCInputs \cup FIBInputs \cup QuizInputs
    /\ vPc = "new"
    /\ vresult = None
    /\ ScoreIdle
    /\ TrackerIdle
    /\ SerializeIdle
    /\ UiIdle

ValidateMultipleChoice ==
    /\ vPc = "new"
    /\ vobj.cls = "MultipleChoiceQuestion"
    /\ vresult' = MCValidate(vobj)
    /\ vPc' = "done"
    /\ UNCHANGED <<vobj, scoreVars, trackerVars, serializeVars, uiVars>>

ValidateFillInBlank ==
    /\ vPc = "new"
    /\ vobj.cls = "FillInBlankQuestion"
    /\ vresult' = FIBValidate(vobj)
    /\ vPc' = "done"
    /\ UNCHANGED <<vobj, scoreVars, trackerVars, serializeVars, uiVars>>

ValidateQuiz ==
    /\ vPc = "new"
    /\ vobj.cls = "Quiz"
    /\ vresult' = QuizValidate(vobj)
    /\ vPc' = "done"
    /\ UNCHANGED <<vobj, scoreVars, trackerVars, serializeVars, uiVars>>

NextValidate == ValidateMultipleChoice \/ ValidateFillInBlank \/ ValidateQuiz

SpecValidate == InitValidate /\ [][NextValidate]_vars

(***************************************************************************)
(* Claims about the validators                                             *)
(***************************************************************************)
\* a text with a character that is not whitespace
NonBlank(s) == \E k \in 1..Len(s) : s[k] \notin Whitespace

\* s holds exactly one marker: splitting on it yields exactly two parts
ExactlyOneMarker(s) == SplitParts(s, BlankMarker) = 2

\* C7 (the claim's "only if" half, the data model's invariant): a
\* FillInBlankQuestion that validates holds exactly one five-underscore marker,
\* and its correct_answer and question are not blank.
C7_ValidOnlyIfExactlyOneMarker ==
    (vPc = "done" /\ vobj.cls = "FillInBlankQuestion" /\ vresult = TRUE)
        => /\ ExactlyOneMarker(vobj.question)
           /\ NonBlank(vobj.correct_answer)
           /\ NonBlank(vobj.question)

\* C8: MultipleChoiceQuestion.validate() is true iff there are at least two
\* options, correct_answer indexes one of them, and question and justification
\* both hold a non-whitespace character.
C8_MCValidateIff ==
    (vPc = "done" /\ vobj.cls = "MultipleChoiceQuestion")
        => (vresult = TRUE <=>
               /\ Len(vobj.options) > 1
               /\ vobj.correct_answer \in 0..(Len(vobj.options) - 1)
               /\ NonBlank(vobj.question)
               /\ NonBlank(vobj.justification))

\* validate() accepted a question whose texts carry surrounding whitespace and
\* whose correct_answer is the last option
C8_Witness ==
    /\ vPc = "done"
    /\ vobj.cls = "MultipleChoiceQuestion"
    /\ vresult = TRUE
    /\ vobj.question = <<" ", "a", " ">>
    /\ vobj.correct_answer = Len(vobj.options) - 1

\* the variant that matches a quiz type
VariantOf(t) ==
    IF t = MULTIPLE_CHOICE THEN "MultipleChoiceQuestion" ELSE "FillInBlankQuestion"

\* C9: Quiz.validate() is true iff the quiz has at least one question and every
\* question validates on its own; the quiz type plays no part, so an empty quiz
\* is invalid for both types and a mixed quiz of valid questions is valid.
C9_QuizValidateIff ==
    (vPc = "done" /\ vobj.cls = "Quiz")
        => /\ vresult \in BOOLEAN
           /\ vresult = TRUE <=>
                 /\ Len(vobj.questions) >= 1
                 /\ \A k \in 1..Len(vobj.questions) :
                        QuestionValidate(vobj.questions[k])
           /\ vobj.questions = <<>> => vresult = FALSE

\* a quiz whose questions are valid but not of its type's variant validated
C9_Witness ==
    /\ vPc = "done"
    /\ vobj.cls = "Quiz"
    /\ vresult = TRUE
    /\ \E k \in 1..Len(vobj.questions) : vobj.questions[k].cls # VariantOf(vobj.type)

(***************************************************************************)
(* pages/take_quiz.py: calculate_quiz_score                                *)
(***************************************************************************)
\* MultipleChoiceQuestion.to_dict: the stored question record
MCToDict(q) ==
    [question |-> q.question, justification |-> q.justification,
     options |-> q.options, correct_answer |-> q.correct_answer]

\* FillInBlankQuestion.to_dict
FIBToDict(q) ==
    [question |-> q.question, justification |-> q.justification,
     correct_answer |-> q.correct_answer]

RECURSIVE GCD(_, _)
GCD(a, b) == IF b = 0 THEN a ELSE GCD(b, a % b)

\* (correct / total) * 100 if total > 0 else 0, as a fraction in lowest terms
Percentage(correct, total) ==
    IF total > 0
    THEN LET g == GCD(correct * 100, total)
         IN  <<(correct * 100) \div g, total \div g>>
    ELSE <<0, 1>>

\* answers.get(str(i))
AnswerGet(ans, i) ==
    IF StrOfInt(i) \in DOMAIN ans THEN ans[StrOfInt(i)] ELSE NoneSeq

NotAnswer_ZeroFalsy(a) == a = NoneSeq \/ a = <<>> \/ a = <<"0">>

\* not answer: None and the empty str are falsy
NotAnswer(a) == a = NoneSeq \/ a = <<>>

\* not quiz_data or not quiz_data.questions
NoQuestions(qd) == IF qd = NoneObj THEN TRUE ELSE qd.questions = <<>>

TotalQuestions == Len(quiz_data.questions)
\* q of enumerate(quiz_data.questions) at index idx
CurrentQuestion == quiz_data.questions[idx + 1]

\* mutant of ScoreNoQuestions: the guard of lines 194-196 is lost, so a missing
\* quiz fails on quiz_data.questions and an empty one runs the loop
ScoreNoQuestions_Unguarded ==
    /\ scorePc = "start"
    /\ NoQuestions(quiz_data)
    /\ IF quiz_data = NoneObj
       THEN /\ scorePc' = "raised"
            /\ UNCHANGED <<idx, correct_answers, incorrect_questions>>
       ELSE /\ scorePc' = "loop"
            /\ idx' = 0
            /\ correct_answers' = 0
            /\ incorrect_questions' = <<>>
    /\ UNCHANGED <<quiz_data, answers, score, validateVars, trackerVars, serializeVars, uiVars>>

\* lines 194-196: no quiz data or no questions
ScoreNoQuestions ==
    /\ scorePc = "start"
    /\ NoQuestions(quiz_data)
    /\ score' = <<0, 1>>
    /\ incorrect_questions' = <<>>
    /\ scorePc' = "returned"
    /\ UNCHANGED <<quiz_data, answers, idx, correct_answers, validateVars, trackerVars, serializeVars, uiVars>>

ScoreBegin_KeepsCount ==
    /\ scorePc = "start"
    /\ ~NoQuestions(quiz_data)
    /\ incorrect_questions' = <<>>
    /\ idx' = 0
    /\ scorePc' = "loop"
    /\ UNCHANGED <<quiz_data, answers, correct_answers, score, validateVars,
                   trackerVars, serializeVars, uiVars>>

\* lines 198-202
ScoreBegin ==
    /\ scorePc = "start"
    /\ ~NoQuestions(quiz_data)
    /\ correct_answers' = 0
    /\ incorrect_questions' = <<>>
    /\ idx' = 0
    /\ scorePc' = "loop"
    /\ UNCHANGED <<quiz_data, answers, score, validateVars, trackerVars, serializeVars, uiVars>>

\* mutant of ScoreMissingAnswer: the question is skipped but not recorded
ScoreMissingAnswer_NotRecorded ==
    /\ scorePc = "loop"
    /\ idx < TotalQuestions
    /\ NotAnswer(AnswerGet(answers, idx))
    /\ idx' = idx + 1
    /\ UNCHANGED <<quiz_data, answers, scorePc, correct_answers, incorrect_questions,
                   score, validateVars, trackerVars, serializeVars, uiVars>>

\* lines 205-209: one iteration, no (or an empty) answer
ScoreMissingAnswer ==
    /\ scorePc = "loop"
    /\ idx < TotalQuestions
    /\ NotAnswer(AnswerGet(answers, idx))
    /\ incorrect_questions' = Append(incorrect_questions, idx)
    /\ idx' = idx + 1
    /\ UNCHANGED <<quiz_data, answers, scorePc, correct_answers, score,
                   validateVars, trackerVars, serializeVars, uiVars>>

\* lines 211-215: one iteration of a multiple-choice quiz; int(answer) may raise
ScoreMultipleChoice ==
    /\ scorePc = "loop"
    /\ idx < TotalQuestions
    /\ ~NotAnswer(AnswerGet(answers, idx))
    /\ quiz_data.type = MULTIPLE_CHOICE
    /\ LET parsed == ParseInt(AnswerGet(answers, idx))
       IN  IF ~parsed.ok
           THEN /\ scorePc' = "raised"
                /\ UNCHANGED <<idx, correct_answers, incorrect_questions>>
           ELSE IF parsed.val = CurrentQuestion.correct_answer
           THEN /\ correct_answers' = correct_answers + 1
                /\ idx' = idx + 1
                /\ UNCHANGED <<scorePc, incorrect_questions>>
           ELSE /\ incorrect_questions' = Append(incorrect_questions, idx)
                /\ idx' = idx + 1
                /\ UNCHANGED <<scorePc, correct_answers>>
    /\ UNCHANGED <<quiz_data, answers, score, validateVars, trackerVars, serializeVars, uiVars>>

\* lines 216-220: one iteration of a fill-in-the-blank quiz
ScoreFillInBlank ==
    /\ scorePc = "loop"
    /\ idx < TotalQuestions
    /\ ~NotAnswer(AnswerGet(answers, idx))
    /\ quiz_data.type # MULTIPLE_CHOICE
    /\ IF Lower(Strip(AnswerGet(answers, idx)))
            = Lower(Strip(CurrentQuestion.correct_answer))
       THEN /\ correct_answers' = correct_answers + 1
            /\ UNCHANGED incorrect_questions
       ELSE /\ incorrect_questions' = Append(incorrect_questions, idx)
            /\ UNCHANGED correct_answers
    /\ idx' = idx + 1
    /\ UNCHANGED <<quiz_data, answers, scorePc, score, validateVars, trackerVars, serializeVars, uiVars>>

\* lines 222-223
ScoreReturn ==
    /\ scorePc = "loop"
    /\ idx = TotalQuestions
    /\ score' = Percentage(correct_answers, TotalQuestions)
    /\ scorePc' = "returned"
    /\ UNCHANGED <<quiz_data, answers, idx, correct_answers, incorrect_questions,
                   validateVars, trackerVars, serializeVars, uiVars>>

(***************************************************************************)
(* Inputs of the scoring function: the quizzes the editor can have stored  *)
(* (every question passed validate()), no quiz, and a quiz of no questions *)
(***************************************************************************)
Paris == <<"P", "a", "r", "i", "s">>

StoredMCQuestions ==
    {MCToDict(q) : q \in
        {m \in {MultipleChoiceQuestion(<<"a">>, <<"a">>, OptionList(MaxOptions), c) :
                    c \in 0..MaxOptions} : MCValidate(m)}}

StoredFIBQuestions ==
    {FIBToDict(q) : q \in
        {f \in {FillInBlankQuestion(<<"a">> \o BlankMarker, <<"a">>, c) :
                    c \in {Paris, <<" ", "P", "A", "R", "I", "S", " ">>,
                           <<"p", "a", "r", " ", "i", "s">>, <<" ">>}} :
            FIBValidate(f)}}

MCSubmissions ==
    {<<>>, <<"0">>, <<"1">>, <<"2">>, <<" ", "1", " ">>, <<"x">>}

FIBSubmissions ==
    {<<>>, <<" ">>, Paris, <<" ", "p", "a", "r", "i", "s", " ">>,
     <<"p", "a", "r", " ", "i", "s">>}

\* every Dict[str, str] with keys among str(0) .. str(MaxQuestions - 1)
AnswerDicts(pool) ==
    UNION {[keys -> pool] : keys \in SUBSET {StrOfInt(i) : i \in 0..(MaxQuestions - 1)}}

InitScore ==
    /\ \/ /\ quiz_data \in {[type |-> MULTIPLE_CHOICE, questions |-> qs] :
                                qs \in SeqsUpTo(StoredMCQuestions, MaxQuestions)}
                           \cup {NoneObj}
          /\ answers \in AnswerDicts(MCSubmissions)
       \/ /\ quiz_data \in {[type |-> FILL_IN_THE_BLANK, questions |-> qs] :
                                qs \in SeqsUpTo(StoredFIBQuestions, MaxQuestions)}
          /\ answers \in AnswerDicts(FIBSubmissions)
    /\ scorePc = "start"
    /\ idx = 0
    /\ correct_answers = 0
    /\ incorrect_questions = <<>>
    /\ score = NoneSeq
    /\ ValidateIdle
    /\ TrackerIdle
    /\ SerializeIdle
    /\ UiIdle

NextScore ==
    \/ ScoreNoQuestions
    \/ ScoreBegin
    \/ ScoreMissingAnswer
    \/ ScoreMultipleChoice
    \/ ScoreFillInBlank
    \/ ScoreReturn

SpecScore == InitScore /\ [][NextScore]_vars

(***************************************************************************)
(* SpecScoreTwice: calculate_quiz_score called a second time on the same   *)
(* quiz_data and answers                                                   *)
(***************************************************************************)
\* what a finished call has handed back to its caller
CallOutcome ==
    [pc |-> scorePc, score |-> score, incorrect_questions |-> incorrect_questions]

\* the caller keeps the outcome of the first call and calls again with the same
\* arguments; the new call's locals are not assigned yet
ScoreAgain ==
    /\ scorePc \in {"returned", "raised"}
    /\ first_call = NoneObj
    /\ first_call' = CallOutcome
    /\ scorePc' = "start"
    /\ UNCHANGED <<quiz_data, answers, idx, correct_answers, incorrect_questions,
                   score, validateVars, trackerVars, serializeVars, quizPageVars,
                   editorVars, pageVars>>

NextScoreTwice == NextScore \/ ScoreAgain

SpecScoreTwice == InitScore /\ [][NextScoreTwice]_vars

(***************************************************************************)
(* SpecQuizPage: display_quiz of pages/take_quiz.py: the questions are     *)
(* displayed with the student's selections, then the answers are scored    *)
(***************************************************************************)
\* list.index(x): the first position of x, counted from 0
ListIndex(list, x) ==
    (CHOOSE k \in 1..Len(list) : list[k] = x /\ \A j \in 1..(k - 1) : list[j] # x) - 1

\* display_question, lines 127-159: st.radio returns the selected option, the
\* answer is the str of its first index
DisplayMultipleChoice(question_data, selected, show_feedback) ==
    LET answer == question_data.options[selected + 1]
        answer_index == ListIndex(question_data.options, answer)
    IN  [answer |-> StrOfInt(answer_index),
         feedback |-> IF ~show_feedback THEN "none"
                      ELSE IF answer_index = question_data.correct_answer
                      THEN "Correct" ELSE "Incorrect"]

\* display_question, lines 161-190: st.text_input returns the text typed
DisplayFillInBlank(question_data, typed, show_feedback) ==
    [answer |-> typed,
     feedback |-> IF ~show_feedback THEN "none"
                  ELSE IF Lower(Strip(typed)) = Lower(Strip(question_data.correct_answer))
                  THEN "Correct" ELSE "Incorrect"]

DisplayQuestion(question_data, page_quiz_type, widget, show_feedback) ==
    IF page_quiz_type = MULTIPLE_CHOICE
    THEN DisplayMultipleChoice(question_data, widget, show_feedback)
    ELSE DisplayFillInBlank(question_data, widget, show_feedback)

\* display_quiz, lines 237-247: every question is displayed and its answer kept
\* under str(i); line 249 then calls calculate_quiz_score
DisplayQuestions ==
    /\ scorePc = "display"
    /\ LET shown == [k \in 1..Len(quiz_data.questions) |->
                        DisplayQuestion(quiz_data.questions[k], quiz_data.type,
                                        widgets[k], quiz_submitted)]
       IN  /\ answers' = [key \in {StrOfInt(k - 1) : k \in 1..Len(shown)} |->
                             shown[(CHOOSE k \in 1..Len(shown) : StrOfInt(k - 1) = key)].answer]
           /\ feedback' = [k \in 1..Len(shown) |-> shown[k].feedback]
    /\ scorePc' = "start"
    /\ UNCHANGED <<quiz_data, idx, correct_answers, incorrect_questions, score,
                   widgets, validateVars, trackerVars, serializeVars, replayVars,
                   editorVars, pageVars>>

\* a stored question two of whose options have the same text
TwinOptionsQuestion ==
    MCToDict(MultipleChoiceQuestion(<<"a">>, <<"a">>, <<<<"o">>, <<"o">>>>, 1))

\* the selections a student can make on the questions qs: an option's position
\* on each multiple-choice question, a text on each fill-in-the-blank question
Selections(qs, page_quiz_type) ==
    IF page_quiz_type = MULTIPLE_CHOICE
    THEN {w \in [1..Len(qs) -> 0..(MaxOptions - 1)] :
             \A k \in 1..Len(qs) : w[k] < Len(qs[k].options)}
    ELSE [1..Len(qs) -> FIBSubmissions]

\* the quizzes the editor can have stored with at least one question, the
\* student's selections, before and after submission
InitQuizPage ==
    /\ \E t \in QuizType :
           /\ quiz_data \in
                  {[type |-> t, questions |-> qs] :
                      qs \in SeqsUpTo(IF t = MULTIPLE_CHOICE
                                      THEN StoredMCQuestions \cup {TwinOptionsQuestion}
                                      ELSE StoredFIBQuestions, MaxQuestions) \ {<<>>}}
           /\ widgets \in Selections(quiz_data.questions, t)
    /\ quiz_submitted \in BOOLEAN
    /\ feedback = <<>>
    /\ answers = <<>>
    /\ scorePc = "display"
    /\ idx = 0
    /\ correct_answers = 0
    /\ incorrect_questions = <<>>
    /\ score = NoneSeq
    /\ sections = <<>> /\ current_page = None /\ current_section_index = 0
    /\ ValidateIdle
    /\ TrackerIdle
    /\ SerializeIdle
    /\ ReplayIdle
    /\ EditorIdle

NextQuizPage ==
    \/ DisplayQuestions
    \/ ScoreBegin
    \/ ScoreMissingAnswer
    \/ ScoreMultipleChoice
    \/ ScoreFillInBlank
    \/ ScoreReturn

SpecQuizPage == InitQuizPage /\ [][NextQuizPage]_vars

(***************************************************************************)
(* Claims about scoring                                                    *)
(***************************************************************************)
Range(f) == {f[k] : k \in DOMAIN f}

HasAnswer(i) == StrOfInt(i) \in DOMAIN answers

\* s without its leading and trailing whitespace
Trimmed(s) ==
    IF ~NonBlank(s) THEN <<>>
    ELSE LET inked == {k \in 1..Len(s) : s[k] \notin Whitespace}
             first == CHOOSE k \in inked : \A j \in inked : k <= j
             last == CHOOSE k \in inked : \A j \in inked : j <= k
         IN  SubSeq(s, first, last)

CasePairs == {{"P", "p"}, {"A", "a"}, {"R", "r"}, {"I", "i"}, {"S", "s"}}
SameLetter(c, d) == c = d \/ {c, d} \in CasePairs

\* equal after trimming, letter case ignored
EqualTrimmedIgnoringCase(a, b) ==
    LET x == Trimmed(a)
        y == Trimmed(b)
    IN  Len(x) = Len(y) /\ \A k \in 1..Len(x) : SameLetter(x[k], y[k])

\* the submitted answer for question i matches its correct_answer
SubmissionMatches(i) ==
    LET a == answers[StrOfInt(i)]
        q == quiz_data.questions[i + 1]
    IN  IF quiz_data.type = MULTIPLE_CHOICE
        THEN ParseInt(a).ok /\ ParseInt(a).val = q.correct_answer
        ELSE EqualTrimmedIgnoringCase(a, q.correct_answer)

\* the indices, ascending, whose answer is missing or does not match
ExpectedIncorrect ==
    SelectSeq([k \in 1..TotalQuestions |-> k - 1],
              LAMBDA i : ~HasAnswer(i) \/ ~SubmissionMatches(i))

\* C2: a question whose index has no entry in answers is appended to
\* incorrect_indices and not counted as correct, and that iteration does not
\* raise; every returned result lists every such index.
C2_MissingAnswerScoredIncorrect ==
    /\ [][(scorePc = "loop" /\ idx < TotalQuestions /\ ~HasAnswer(idx))
            => /\ incorrect_questions' = Append(incorrect_questions, idx)
               /\ correct_answers' = correct_answers
               /\ scorePc' = "loop"]_vars
    /\ []((scorePc = "returned" /\ ~NoQuestions(quiz_data))
            => \A i \in 0..(TotalQuestions - 1) :
                   ~HasAnswer(i) => /\ i \in Range(incorrect_questions)
                                    /\ correct_answers <= TotalQuestions - 1)

\* a result was returned for a quiz with one answered, correct question and one
\* question without an answer
C2_Witness ==
    /\ scorePc = "returned"
    /\ ~NoQuestions(quiz_data)
    /\ correct_answers = 1
    /\ \E i \in 0..(TotalQuestions - 1) :
           ~HasAnswer(i) /\ i \in Range(incorrect_questions)

\* C3: in a multiple-choice quiz an answer that is not an integer is scored as
\* incorrect and the call returns a result; it never raises.
C3_NonIntegerScoredIncorrect ==
    (~NoQuestions(quiz_data) /\ quiz_data.type = MULTIPLE_CHOICE)
        => \A i \in 0..(TotalQuestions - 1) :
               (HasAnswer(i) /\ ~ParseInt(answers[StrOfInt(i)]).ok)
                   => /\ scorePc # "raised"
                      /\ scorePc = "returned" => i \in Range(incorrect_questions)

\* C4: for a non-empty quiz the call returns exactly the indices, ascending, whose
\* answer is missing or does not match, and percentage (n - len(incorrect)) / n * 100.
C4_ScoreExact ==
    ~NoQuestions(quiz_data)
        => /\ scorePc # "raised"
           /\ scorePc = "returned"
                => /\ incorrect_questions = ExpectedIncorrect
                   /\ score = Percentage(TotalQuestions - Len(incorrect_questions),
                                         TotalQuestions)

\* the part of C4 the code does satisfy: every result that is returned is exact
C4_ReturnedScoreExact ==
    (~NoQuestions(quiz_data) /\ scorePc = "returned")
        => /\ incorrect_questions = ExpectedIncorrect
           /\ LET n == TotalQuestions
                  wrong == Cardinality(Range(ExpectedIncorrect))
              IN  score[1] * n = (n - wrong) * 100 * score[2]

\* the scenario of C4: correct answers 1 and 0, answers {"0": "1", "1": "2"}
C4_Scenario ==
    /\ scorePc = "returned"
    /\ ~NoQuestions(quiz_data)
    /\ quiz_data.type = MULTIPLE_CHOICE
    /\ TotalQuestions = 2
    /\ quiz_data.questions[1].correct_answer = 1
    /\ quiz_data.questions[2].correct_answer = 0
    /\ answers = (<<"0">> :> <<"1">>) @@ (<<"1">> :> <<"2">>)
    /\ score = <<50, 1>>
    /\ incorrect_questions = <<1>>

\* C5: with no quiz data or no questions the call returns percentage 0 and no
\* incorrect indices whatever answers holds, and it does not raise.
C5_NoQuestionsScoreZero ==
    NoQuestions(quiz_data)
        => /\ scorePc \in {"start", "returned"}
           /\ scorePc = "returned" => (score = <<0, 1>> /\ incorrect_questions = <<>>)

\* a quiz of no questions was scored against a non-empty answers mapping
C5_Witness ==
    /\ scorePc = "returned"
    /\ quiz_data # NoneObj
    /\ NoQuestions(quiz_data)
    /\ DOMAIN answers # {}
    /\ score = <<0, 1>>

\* C6: in a fill-in-the-blank quiz a submission is scored correct iff it equals
\* correct_answer after trimming and ignoring case; a one-question quiz then
\* scores 100.
C6_FillInBlankMatch ==
    (scorePc = "returned" /\ ~NoQuestions(quiz_data)
        /\ quiz_data.type = FILL_IN_THE_BLANK)
        => /\ \A i \in 0..(TotalQuestions - 1) :
                  HasAnswer(i) =>
                      (i \notin Range(incorrect_questions)
                          <=> EqualTrimmedIgnoringCase(answers[StrOfInt(i)],
                                  quiz_data.questions[i + 1].correct_answer))
           /\ (TotalQuestions = 1 /\ HasAnswer(0))
                  => (score = <<100, 1>>
                          <=> EqualTrimmedIgnoringCase(answers[StrOfInt(0)],
                                  quiz_data.questions[1].correct_answer))

\* the scenario of C6: correct_answer "Paris", submission " paris ", score 100
C6_Witness ==
    /\ scorePc = "returned"
    /\ ~NoQuestions(quiz_data)
    /\ quiz_data.type = FILL_IN_THE_BLANK
    /\ TotalQuestions = 1
    /\ quiz_data.questions[1].correct_answer = Paris
    /\ HasAnswer(0)
    /\ answers[StrOfInt(0)] = <<" ", "p", "a", "r", "i", "s", " ">>
    /\ score = <<100, 1>>
    /\ incorrect_questions = <<>>

(***************************************************************************)
(* internal/repository/student_progress.py                                 *)
(***************************************************************************)
NOT_STARTED == "not_started"
IN_PROGRESS == "in_progress"
COMPLETED == "completed"
SectionStatus == {NOT_STARTED, IN_PROGRESS, COMPLETED}

\* Python values of a quiz_data payload, tagged with their type
PyInt(n) == [int |-> n]
PyStr(t) == [str |-> t]
PyFloat(f) == [float |-> f]

\* str(v): the str itself, or the decimal digits of an int
StrOf(v) == IF "str" \in DOMAIN v THEN v.str ELSE StrOfInt(v.int)

\* float(v) of an int or a float, as a fraction
FloatOf(v) == IF "float" \in DOMAIN v THEN v.float ELSE <<v.int, 1>>

\* a datetime value at tick t of the clock
Datetime(t) == <<"utc", t>>

\* datetime.isoformat(): the stored text of a datetime
IsoFormat(dt) == <<"iso", dt[2]>>

\* datetime.fromisoformat()
FromIsoFormat(text) == <<"utc", text[2]>>

\* QuizAttempt.__init__
QuizAttempt(quiz_id, attempt_score, completed_at, attempt_answers, incorrect) ==
    [quiz_id |-> quiz_id, score |-> attempt_score, completed_at |-> completed_at,
     answers |-> attempt_answers, incorrect_questions |-> incorrect]

AttemptToDict_NoAnswers(a) ==
    [quiz_id |-> a.quiz_id, score |-> a.score,
     completed_at |-> IsoFormat(a.completed_at),
     answers |-> <<>>, incorrect_questions |-> a.incorrect_questions]

\* QuizAttempt.to_dict
AttemptToDict(a) ==
    [quiz_id |-> a.quiz_id, score |-> a.score,
     completed_at |-> IsoFormat(a.completed_at),
     answers |-> a.answers, incorrect_questions |-> a.incorrect_questions]

\* a new StudentCourseTracker row: the field defaults and get_or_create's defaults
NewTracker(id) ==
    [id |-> id, current_section_index |-> 0, completed |-> FALSE,
     completed_at |-> NoneSeq, section_status |-> <<>>, quiz_results |-> <<>>]

\* d[key] = value of a dict
DictSet(d, key, value) ==
    [k \in DOMAIN d \cup {key} |-> IF k = key THEN value ELSE d[k]]

\* d.get(key, default)
DictGet(d, key, default) == IF key \in DOMAIN d THEN d[key] ELSE default

\* StudentCourseTracker.get_or_create(course_id=...): the store after the call
StoreAfterGetOrCreate == IF store = <<>> THEN <<NewTracker(1)>> ELSE store

\* ... and the object it returns
GetOrCreateProgress == StoreAfterGetOrCreate[1]

Save_MergesSectionStatus(progress) ==
    LET stored == store[progress.id].section_status
        mine == progress.section_status
    IN  [store EXCEPT ![progress.id] =
            [progress EXCEPT !.section_status =
                [k \in DOMAIN stored \cup DOMAIN mine |->
                    IF k \in DOMAIN mine THEN mine[k] ELSE stored[k]]]]

\* progress.save(): the row with the object's id takes every field of the object
Save(progress) == [store EXCEPT ![progress.id] = progress]

WithSectionStatus_Replace(progress, section_id, status) ==
    [progress EXCEPT !.section_status = DictSet(<<>>, section_id, status)]

\* update_section_status, before its save
WithSectionStatus(progress, section_id, status) ==
    [progress EXCEPT !.section_status = DictSet(@, section_id, status)]

WithQuizAttempt_Prepend(progress, section_id, attempt) ==
    [progress EXCEPT !.quiz_results =
        DictSet(@, section_id,
                <<AttemptToDict(attempt)>> \o DictGet(@, section_id, <<>>))]

\* add_quiz_attempt, before its save
WithQuizAttempt(progress, section_id, attempt) ==
    [progress EXCEPT !.quiz_results =
        DictSet(@, section_id,
                Append(DictGet(@, section_id, <<>>), AttemptToDict(attempt)))]

WithCourseCompleted_CompletesSections(progress, now) ==
    [progress EXCEPT !.completed = TRUE, !.completed_at = now,
                     !.section_status = [k \in DOMAIN @ |-> COMPLETED]]

WithCourseCompleted_NoStamp(progress, now) ==
    [progress EXCEPT !.completed = TRUE]

WithCourseCompleted_ResetsIndex(progress, now) ==
    [progress EXCEPT !.completed = TRUE, !.completed_at = now,
                     !.current_section_index = 0]

\* mark_course_completed, before its save
WithCourseCompleted(progress, now) ==
    [progress EXCEPT !.completed = TRUE, !.completed_at = now]

\* update_current_section, before its save
WithCurrentSection(progress, section_index) ==
    [progress EXCEPT !.current_section_index = section_index]

GetSectionStatus_DefaultInProgress(progress, section_id) ==
    DictGet(progress.section_status, section_id, IN_PROGRESS)

\* get_section_status
GetSectionStatus(progress, section_id) ==
    DictGet(progress.section_status, section_id, NOT_STARTED)

\* QuizAttempt.from_dict
AttemptFromDict(d) ==
    QuizAttempt(d.quiz_id, d.score, FromIsoFormat(d.completed_at), d.answers,
                d.incorrect_questions)

\* get_quiz_attempts
GetQuizAttempts(progress, section_id) ==
    LET attempts_data == DictGet(progress.quiz_results, section_id, <<>>)
    IN  [k \in 1..Len(attempts_data) |-> AttemptFromDict(attempts_data[k])]

(***************************************************************************)
(* internal/handlers/student_progress.py                                   *)
(***************************************************************************)
RequiredKeys == {"quiz_id", "score", "answers", "incorrect_questions"}

\* bool(quiz_data): None and the empty dict are falsy
PayloadTruthy(quiz_payload) == quiz_payload # NoneObj /\ DOMAIN quiz_payload # {}

\* all(key in quiz_data for key in [...])
HasRequiredKeys(quiz_payload) == RequiredKeys \subseteq DOMAIN quiz_payload

\* the sessions that can call the handler at the same time
Sessions == {"A", "B"}

\* section ids are str(section.id)
Sections == {StrOfInt(1), StrOfInt(2)}

CompletePayloads ==
    {[quiz_id |-> PyStr(StrOfInt(1)), score |-> PyFloat(<<50, 1>>),
      answers |-> (<<"0">> :> <<"1">>) @@ (<<"1">> :> <<"2">>),
      incorrect_questions |-> <<1>>],
     [quiz_id |-> PyInt(7), score |-> PyInt(100),
      answers |-> (<<"0">> :> <<"1">>), incorrect_questions |-> <<>>]}

\* a dict without one of its keys
Without(d, key) == [k \in DOMAIN d \ {key} |-> d[k]]

\* the quiz_data arguments: None, {}, complete payloads, and payloads that lack
\* one required key
FirstPayload == CHOOSE d \in CompletePayloads : "str" \in DOMAIN d.quiz_id

Payloads ==
    {NoneObj, <<>>} \cup CompletePayloads
        \cup {Without(FirstPayload, key) : key \in RequiredKeys}

\* the (is_quiz, quiz_data) arguments of mark_section_complete
CompletionArgs ==
    {<<TRUE, d>> : d \in Payloads} \cup {<<FALSE, NoneObj>>, <<FALSE, FirstPayload>>}

IdleSession ==
    [pc |-> "idle", op |-> "none", section_id |-> <<>>, section_index |-> 0,
     is_quiz |-> FALSE, quiz_payload |-> NoneObj, progress |-> NoneObj,
     result |-> "none", ret |-> <<>>, pre |-> <<>>]

\* the handler returns (or raises) in session s: the session keeps what the call
\* was and what it returned, the call's locals are gone
Finish(s, result, ret) ==
    [sess[s] EXCEPT !.pc = "idle", !.is_quiz = FALSE, !.quiz_payload = NoneObj,
                    !.progress = NoneObj, !.result = result, !.ret = ret]

\* mark_section_complete, line 25
MarkSectionComplete_GetProgress(s, section_id, is_quiz, quiz_payload) ==
    /\ sess[s].pc = "idle"
    /\ calls < MaxCalls
    /\ store' = StoreAfterGetOrCreate
    /\ sess' = [sess EXCEPT ![s] =
                   [pc |-> "msc_update_status", op |-> "mark_section_complete",
                    section_id |-> section_id, section_index |-> 0,
                    is_quiz |-> is_quiz, quiz_payload |-> quiz_payload,
                    progress |-> GetOrCreateProgress, result |-> "running",
                    ret |-> <<>>, pre |-> store]]
    /\ calls' = calls + 1
    /\ UNCHANGED <<clock, validateVars, scoreVars, serializeVars, uiVars>>

\* mark_section_complete, lines 27-38: the status is saved, then the payload is
\* looked at
MarkSectionComplete_UpdateStatus(s) ==
    /\ sess[s].pc = "msc_update_status"
    /\ LET progress == WithSectionStatus(sess[s].progress, sess[s].section_id, COMPLETED)
       IN  /\ store' = Save(progress)
           /\ sess' = [sess EXCEPT ![s] =
                  IF sess[s].is_quiz /\ PayloadTruthy(sess[s].quiz_payload)
                  THEN IF ~HasRequiredKeys(sess[s].quiz_payload)
                       THEN Finish(s, "ValueError", <<>>)
                       ELSE [sess[s] EXCEPT !.pc = "msc_add_attempt",
                                            !.progress = progress]
                  ELSE Finish(s, "ok", <<>>)]
    /\ UNCHANGED <<clock, calls, validateVars, scoreVars, serializeVars, uiVars>>

\* mark_section_complete, lines 40-49
MarkSectionComplete_AddAttempt(s) ==
    /\ sess[s].pc = "msc_add_attempt"
    /\ LET quiz_payload == sess[s].quiz_payload
           attempt == QuizAttempt(StrOf(quiz_payload.quiz_id),
                                  FloatOf(quiz_payload.score),
                                  Datetime(clock),
                                  quiz_payload.answers,
                                  quiz_payload.incorrect_questions)
       IN  store' = Save(WithQuizAttempt(sess[s].progress, sess[s].section_id, attempt))
    /\ sess' = [sess EXCEPT ![s] = Finish(s, "ok", <<>>)]
    /\ UNCHANGED <<clock, calls, validateVars, scoreVars, serializeVars, uiVars>>

\* start_section, line 58
StartSection_GetProgress(s, section_id, section_index) ==
    /\ sess[s].pc = "idle"
    /\ calls < MaxCalls
    /\ store' = StoreAfterGetOrCreate
    /\ sess' = [sess EXCEPT ![s] =
                   [pc |-> "ss_update_status", op |-> "start_section",
                    section_id |-> section_id, section_index |-> section_index,
                    is_quiz |-> FALSE, quiz_payload |-> NoneObj,
                    progress |-> GetOrCreateProgress, result |-> "running",
                    ret |-> <<>>, pre |-> store]]
    /\ calls' = calls + 1
    /\ UNCHANGED <<clock, validateVars, scoreVars, serializeVars, uiVars>>

StartSection_UpdateStatus_KeepsCompleted(s) ==
    /\ sess[s].pc = "ss_update_status"
    /\ LET progress ==
               IF GetSectionStatus(sess[s].progress, sess[s].section_id) = COMPLETED
               THEN sess[s].progress
               ELSE WithSectionStatus(sess[s].progress, sess[s].section_id, IN_PROGRESS)
       IN  /\ store' = Save(progress)
           /\ sess' = [sess EXCEPT ![s].pc = "ss_update_current",
                                   ![s].progress = progress]
    /\ UNCHANGED <<clock, calls, validateVars, scoreVars, serializeVars, uiVars>>

\* start_section, lines 60-65
StartSection_UpdateStatus(s) ==
    /\ sess[s].pc = "ss_update_status"
    /\ LET progress == WithSectionStatus(sess[s].progress, sess[s].section_id, IN_PROGRESS)
       IN  /\ store' = Save(progress)
           /\ sess' = [sess EXCEPT ![s].pc = "ss_update_current",
                                   ![s].progress = progress]
    /\ UNCHANGED <<clock, calls, validateVars, scoreVars, serializeVars, uiVars>>

\* start_section, lines 67-68
StartSection_UpdateCurrent(s) ==
    /\ sess[s].pc = "ss_update_current"
    /\ store' = Save(WithCurrentSection(sess[s].progress, sess[s].section_index))
    /\ sess' = [sess EXCEPT ![s] = Finish(s, "ok", <<>>)]
    /\ UNCHANGED <<clock, calls, validateVars, scoreVars, serializeVars, uiVars>>

\* mark_course_completed, line 82
MarkCourseCompleted_GetProgress(s) ==
    /\ sess[s].pc = "idle"
    /\ calls < MaxCalls
    /\ store' = StoreAfterGetOrCreate
    /\ sess' = [sess EXCEPT ![s] =
                   [pc |-> "mcc_save", op |-> "mark_course_completed",
                    section_id |-> <<>>, section_index |-> 0,
                    is_quiz |-> FALSE, quiz_payload |-> NoneObj,
                    progress |-> GetOrCreateProgress, result |-> "running",
                    ret |-> <<>>, pre |-> store]]
    /\ calls' = calls + 1
    /\ UNCHANGED <<clock, validateVars, scoreVars, serializeVars, uiVars>>

\* mark_course_completed, line 83
MarkCourseCompleted_Save(s) ==
    /\ sess[s].pc = "mcc_save"
    /\ store' = Save(WithCourseCompleted(sess[s].progress, Datetime(clock)))
    /\ sess' = [sess EXCEPT ![s] = Finish(s, "ok", <<>>)]
    /\ UNCHANGED <<clock, calls, validateVars, scoreVars, serializeVars, uiVars>>

\* get_section_progress: one store round trip, then reads of the object
GetSectionProgress(s, section_id) ==
    /\ sess[s].pc = "idle"
    /\ calls < MaxCalls
    /\ store' = StoreAfterGetOrCreate
    /\ sess' = [sess EXCEPT ![s] =
                   [pc |-> "idle", op |-> "get_section_progress",
                    section_id |-> section_id, section_index |-> 0,
                    is_quiz |-> FALSE, quiz_payload |-> NoneObj,
                    progress |-> NoneObj, result |-> "ok",
                    ret |-> <<GetSectionStatus(GetOrCreateProgress, section_id),
                              GetQuizAttempts(GetOrCreateProgress, section_id)>>,
                    pre |-> store]]
    /\ calls' = calls + 1
    /\ UNCHANGED <<clock, validateVars, scoreVars, serializeVars, uiVars>>

\* time passes
Tick ==
    /\ clock < MaxClock
    /\ clock' = clock + 1
    /\ UNCHANGED <<store, sess, calls, validateVars, scoreVars, serializeVars, uiVars>>

Init ==
    /\ store = <<>>
    /\ sess = [s \in Sessions |-> IdleSession]
    /\ clock = 0
    /\ calls = 0
    /\ ValidateIdle
    /\ ScoreIdle
    /\ SerializeIdle
    /\ UiIdle

Next ==
    \/ \E s \in Sessions, section_id \in Sections, args \in CompletionArgs :
           MarkSectionComplete_GetProgress(s, section_id, args[1], args[2])
    \/ \E s \in Sessions : MarkSectionComplete_UpdateStatus(s)
    \/ \E s \in Sessions : MarkSectionComplete_AddAttempt(s)
    \/ \E s \in Sessions, section_id \in Sections, section_index \in 0..MaxIndex :
           StartSection_GetProgress(s, section_id, section_index)
    \/ \E s \in Sessions : StartSection_UpdateStatus(s)
    \/ \E s \in Sessions : StartSection_UpdateCurrent(s)
    \/ \E s \in Sessions : MarkCourseCompleted_GetProgress(s)
    \/ \E s \in Sessions : MarkCourseCompleted_Save(s)
    \/ \E s \in Sessions, section_id \in Sections : GetSectionProgress(s, section_id)
    \/ Tick

Spec == Init /\ [][Next]_vars

\* no handler call is under way
Quiescent == \A s \in Sessions : sess[s].pc = "idle"

\* the single-writer use of the tracker: a session calls the handler only when
\* no call of another session is under way
SingleWriter_MarkSectionComplete(s, section_id, is_quiz, quiz_payload) ==
    Quiescent /\ MarkSectionComplete_GetProgress(s, section_id, is_quiz, quiz_payload)

SingleWriter_StartSection(s, section_id, section_index) ==
    Quiescent /\ StartSection_GetProgress(s, section_id, section_index)

SingleWriter_MarkCourseCompleted(s) ==
    Quiescent /\ MarkCourseCompleted_GetProgress(s)

SingleWriter_GetSectionProgress(s, section_id) ==
    Quiescent /\ GetSectionProgress(s, section_id)

NextSingleWriter ==
    \/ \E s \in Sessions, section_id \in Sections, args \in CompletionArgs :
           SingleWriter_MarkSectionComplete(s, section_id, args[1], args[2])
    \/ \E s \in Sessions : MarkSectionComplete_UpdateStatus(s)
    \/ \E s \in Sessions : MarkSectionComplete_AddAttempt(s)
    \/ \E s \in Sessions, section_id \in Sections, section_index \in 0..MaxIndex :
           SingleWriter_StartSection(s, section_id, section_index)
    \/ \E s \in Sessions : StartSection_UpdateStatus(s)
    \/ \E s \in Sessions : StartSection_UpdateCurrent(s)
    \/ \E s \in Sessions : SingleWriter_MarkCourseCompleted(s)
    \/ \E s \in Sessions : MarkCourseCompleted_Save(s)
    \/ \E s \in Sessions, section_id \in Sections :
           SingleWriter_GetSectionProgress(s, section_id)
    \/ Tick

SpecSingleWriter == Init /\ [][NextSingleWriter]_vars

(***************************************************************************)
(* Claims about the progress handler                                       *)
(***************************************************************************)
\* the call of session s is a mark_section_complete whose payload lacks a
\* required key
MissingKeyCall(s) ==
    /\ sess[s].op = "mark_section_complete"
    /\ sess[s].pc # "idle"
    /\ sess[s].is_quiz
    /\ PayloadTruthy(sess[s].quiz_payload)
    /\ ~HasRequiredKeys(sess[s].quiz_payload)

\* C1: a mark_section_complete call with is_quiz set and a payload that lacks a
\* required key fails with the missing-field error, and no step of it writes
\* the store: the tracker is as it was before the call.
C1_MissingKeyLeavesTrackerUnmodified ==
    [][\A s \in Sessions :
          (MissingKeyCall(s) /\ sess'[s] # sess[s])
              => /\ sess'[s].result = "ValueError"
                 /\ store' = store]_vars

\* the failing call did raise: the error half of C1 alone
C1_MissingKeyRaises ==
    [][\A s \in Sessions :
          (MissingKeyCall(s) /\ sess'[s] # sess[s])
              => sess'[s].result = "ValueError"]_vars

\* a failed call whose section was not COMPLETED before it and is COMPLETED in
\* the store after it
C1_Scenario ==
    \E s \in Sessions :
        /\ sess[s].result = "ValueError"
        /\ sess[s].pre # <<>>
        /\ GetSectionStatus(sess[s].pre[1], sess[s].section_id) = NOT_STARTED
        /\ GetSectionStatus(store[1], sess[s].section_id) = COMPLETED

\* C10: when start_section(course, section, index) has saved the status, the
\* stored status of the section is IN_PROGRESS whatever it was, and when the
\* call returns the stored status is IN_PROGRESS and the stored
\* current_section_index is the supplied index.
C10_StartSectionSetsInProgress ==
    [][\A s \in Sessions :
          /\ (sess[s].pc = "ss_update_status" /\ sess'[s].pc = "ss_update_current")
                 => GetSectionStatus(store'[1], sess[s].section_id) = IN_PROGRESS
          /\ (sess[s].pc = "ss_update_current" /\ sess'[s].pc = "idle")
                 => /\ GetSectionStatus(store'[1], sess[s].section_id) = IN_PROGRESS
                    /\ store'[1].current_section_index = sess[s].section_index]_vars

\* start_section has returned for a section that was COMPLETED when it was
\* called; the store has it IN_PROGRESS, with the supplied index
C10_Witness ==
    \E s \in Sessions :
        /\ sess[s].op = "start_section"
        /\ sess[s].pc = "idle"
        /\ sess[s].result = "ok"
        /\ sess[s].pre # <<>>
        /\ GetSectionStatus(sess[s].pre[1], sess[s].section_id) = COMPLETED
        /\ GetSectionStatus(store[1], sess[s].section_id) = IN_PROGRESS
        /\ sess[s].section_index = MaxIndex
        /\ store[1].current_section_index = sess[s].section_index

\* the stored status of a section; no row yet is no status yet
StoredStatus(st, section_id) ==
    IF st = <<>> THEN NOT_STARTED ELSE GetSectionStatus(st[1], section_id)

\* session s takes a step of a mark_section_complete call
MarkSectionCompleteStep(s) ==
    sess'[s] # sess[s] /\ sess'[s].op = "mark_section_complete"

\* C11: mark_section_complete stores COMPLETED for its section whatever the
\* section's status was, and no step of a mark_section_complete call takes a
\* section that is stored COMPLETED to IN_PROGRESS or NOT_STARTED.
C11_MarkCompleteIsTerminal ==
    [][\A s \in Sessions :
          /\ (sess[s].pc = "msc_update_status" /\ sess'[s] # sess[s])
                 => StoredStatus(store', sess[s].section_id) = COMPLETED
          /\ MarkSectionCompleteStep(s)
                 => \A x \in Sections :
                        StoredStatus(store, x) = COMPLETED
                            => StoredStatus(store', x) = COMPLETED]_vars

\* mark_section_complete has returned for a section that was IN_PROGRESS when
\* it was called, while the other section was already COMPLETED; both are
\* stored COMPLETED
C11_Witness ==
    \E s \in Sessions :
        /\ sess[s].op = "mark_section_complete"
        /\ sess[s].pc = "idle"
        /\ sess[s].result = "ok"
        /\ \E x \in Sections :
               /\ x # sess[s].section_id
               /\ StoredStatus(sess[s].pre, x) = COMPLETED
               /\ StoredStatus(store, x) = COMPLETED
        /\ StoredStatus(store, sess[s].section_id) = COMPLETED

\* ... and for a section that was IN_PROGRESS when it was called
C11_FromInProgress ==
    \E s \in Sessions :
        /\ sess[s].op = "mark_section_complete"
        /\ sess[s].pc = "idle"
        /\ StoredStatus(sess[s].pre, sess[s].section_id) = IN_PROGRESS
        /\ StoredStatus(store, sess[s].section_id) = COMPLETED

\* for the call's own section the second half of C11 holds however the sessions
\* interleave
C11_OwnSectionTerminal ==
    [][\A s \in Sessions :
          (MarkSectionCompleteStep(s) /\ sess[s].pc # "idle")
              => (StoredStatus(store, sess[s].section_id) = COMPLETED
                     => StoredStatus(store', sess[s].section_id) = COMPLETED)]_vars

\* the stored attempts of a section; no row yet is no attempt yet
StoredAttempts(st, section_id) ==
    IF st = <<>> THEN <<>> ELSE DictGet(st[1].quiz_results, section_id, <<>>)

IsPrefix(a, b) == Len(a) <= Len(b) /\ SubSeq(b, 1, Len(a)) = a

\* C12: the attempt history of a section is append-only: every step leaves the
\* attempts already stored for a section in place, unchanged and in the same
\* positions, and the step that records an attempt adds exactly that attempt
\* at the end of the section's list.
C12_AttemptsAppendOnly ==
    [][/\ \A x \in Sections : IsPrefix(StoredAttempts(store, x), StoredAttempts(store', x))
       /\ \A s \in Sessions :
              (sess[s].pc = "msc_add_attempt" /\ sess'[s] # sess[s])
                  => LET old == StoredAttempts(store, sess[s].section_id)
                         new == StoredAttempts(store', sess[s].section_id)
                         quiz_payload == sess[s].quiz_payload
                     IN  /\ Len(new) = Len(old) + 1
                         /\ new[Len(new)].quiz_id = StrOf(quiz_payload.quiz_id)
                         /\ new[Len(new)].score = FloatOf(quiz_payload.score)
                         /\ new[Len(new)].answers = quiz_payload.answers
                         /\ new[Len(new)].incorrect_questions
                                = quiz_payload.incorrect_questions
                         /\ new[Len(new)].completed_at = <<"iso", clock>>]_vars

\* two different attempts are stored for one section, the later one second
C12_Witness ==
    \E x \in Sections :
        LET attempts == StoredAttempts(store, x)
        IN  /\ Len(attempts) = 2
            /\ attempts[1].quiz_id # attempts[2].quiz_id
            /\ attempts[1].completed_at[2] < attempts[2].completed_at[2]

\* the steps that end in progress.save()
SavingPcs ==
    {"msc_update_status", "msc_add_attempt", "ss_update_status",
     "ss_update_current", "mcc_save"}

StatusPcs == {"msc_update_status", "ss_update_status"}

\* C13: every save writes the full record of the saving session: each field the
\* step does not set takes the value of the object the session fetched, whatever
\* another session has stored since, so the later save overwrites the other
\* session's update (last write wins).
C13_LastWriteWins ==
    [][\A s \in Sessions :
          (sess[s].pc \in SavingPcs /\ sess'[s] # sess[s])
              => LET fetched == sess[s].progress
                     row == store'[1]
                     section_id == sess[s].section_id
                 IN  /\ sess[s].pc # "ss_update_current"
                            => row.current_section_index = fetched.current_section_index
                     /\ sess[s].pc # "mcc_save"
                            => /\ row.completed = fetched.completed
                               /\ row.completed_at = fetched.completed_at
                     /\ \A x \in Sections :
                            (sess[s].pc # "msc_add_attempt" \/ x # section_id)
                                => DictGet(row.quiz_results, x, <<>>)
                                       = DictGet(fetched.quiz_results, x, <<>>)
                     /\ \A x \in Sections :
                            (sess[s].pc \notin StatusPcs \/ x # section_id)
                                => GetSectionStatus(row, x) = GetSectionStatus(fetched, x)]_vars

\* a lost update: one session's mark_section_complete of a section has returned,
\* the other session's last call was a start_section of another section that
\* fetched the tracker while the section had no status, and the section is
\* stored with no status
C13_Witness ==
    \E s \in Sessions, t \in Sessions :
        /\ s # t
        /\ sess[s].op = "mark_section_complete"
        /\ sess[s].pc = "idle"
        /\ sess[s].result = "ok"
        /\ sess[t].op = "start_section"
        /\ sess[t].pc = "idle"
        /\ sess[t].section_id # sess[s].section_id
        /\ StoredStatus(sess[t].pre, sess[s].section_id) = NOT_STARTED
        /\ StoredStatus(store, sess[s].section_id) = NOT_STARTED

\* with one call at a time no such loss happens
C13_NoLossSingleWriter == ~C13_Witness

\* the stored completed flag; no row yet is the default
StoredCompleted(st) == IF st = <<>> THEN FALSE ELSE st[1].completed

\* C15: mark_course_completed stores completed = true and completed_at = the
\* current time; in every state a stored completed = true comes with a
\* completed_at that is set; and no step takes a stored completed = true back
\* to false.
C15_CourseCompletion ==
    /\ [](store # <<>> => (store[1].completed => store[1].completed_at # NoneSeq))
    /\ [][/\ \A s \in Sessions :
               (sess[s].pc = "mcc_save" /\ sess'[s] # sess[s])
                   => /\ store'[1].completed = TRUE
                      /\ store'[1].completed_at = <<"utc", clock>>
          /\ (StoredCompleted(store) => StoredCompleted(store'))]_vars

\* the course was completed at tick MaxClock, and a start_section called after
\* that has returned: the flag and the stamp are still stored
C15_Witness ==
    /\ store # <<>>
    /\ store[1].completed = TRUE
    /\ store[1].completed_at = <<"utc", MaxClock>>
    /\ \E s \in Sessions :
           /\ sess[s].op = "start_section"
           /\ sess[s].pc = "idle"
           /\ StoredCompleted(sess[s].pre)

\* C16: get_section_progress never fails; for a section with no stored status
\* it returns NOT_STARTED, for a section with no stored attempts it returns
\* the empty sequence, and it adds no entry to section_status or quiz_results.
C16_ReadsDefault ==
    [][\A s \in Sessions :
          (sess'[s] # sess[s] /\ sess'[s].op = "get_section_progress")
              => LET x == sess'[s].section_id
                     no_status ==
                         IF store = <<>> THEN TRUE
                         ELSE x \notin DOMAIN store[1].section_status
                     no_attempts ==
                         IF store = <<>> THEN TRUE
                         ELSE x \notin DOMAIN store[1].quiz_results
                 IN  /\ sess'[s].result = "ok"
                     /\ no_status => sess'[s].ret[1] = NOT_STARTED
                     /\ no_attempts => sess'[s].ret[2] = <<>>
                     /\ DOMAIN store'[1].section_status
                            = (IF store = <<>> THEN {} ELSE DOMAIN store[1].section_status)
                     /\ DOMAIN store'[1].quiz_results
                            = (IF store = <<>> THEN {} ELSE DOMAIN store[1].quiz_results)
                     /\ store # <<>> => store' = store]_vars

\* get_section_progress has returned (NOT_STARTED, []) for a section of a
\* tracker that has an entry for the other section only
C16_Witness ==
    \E s \in Sessions :
        /\ sess[s].op = "get_section_progress"
        /\ sess[s].ret = <<NOT_STARTED, <<>>>>
        /\ sess[s].pre # <<>>
        /\ store = sess[s].pre
        /\ DOMAIN store[1].section_status = Sections \ {sess[s].section_id}
        /\ DOMAIN store[1].quiz_results = Sections \ {sess[s].section_id}

\* the stored current_section_index; no row yet is the default
StoredIndex(st) == IF st = <<>> THEN 0 ELSE st[1].current_section_index

\* C17: the stored current_section_index changes only in start_section's
\* update_current_section, which stores the supplied index; every other step
\* (mark_section_complete, mark_course_completed, the reads) leaves it as it is.
C17_IndexOnlyByStartSection ==
    [][/\ StoredIndex(store') # StoredIndex(store)
              => \E s \in Sessions :
                     /\ sess[s].pc = "ss_update_current"
                     /\ sess'[s] # sess[s]
       /\ \A s \in Sessions :
              (sess[s].pc = "ss_update_current" /\ sess'[s] # sess[s])
                  => StoredIndex(store') = sess[s].section_index]_vars

\* the index was MaxIndex when a mark_course_completed was called, and it still
\* is after the call has returned
C17_Witness ==
    \E s \in Sessions :
        /\ sess[s].op = "mark_course_completed"
        /\ sess[s].pc = "idle"
        /\ sess[s].result = "ok"
        /\ StoredIndex(sess[s].pre) = MaxIndex
        /\ StoredIndex(store) = MaxIndex
        /\ StoredCompleted(store)

\* the call of session s returns normally with this step
ReturnsOk(s, op) ==
    /\ sess[s].op = op
    /\ sess[s].pc # "idle"
    /\ sess'[s].pc = "idle"
    /\ sess'[s].result = "ok"

\* the payload's quiz_id as a str and its score as a float
PayloadIdText(quiz_payload) ==
    IF "str" \in DOMAIN quiz_payload.quiz_id
    THEN quiz_payload.quiz_id.str
    ELSE StrOfInt(quiz_payload.quiz_id.int)

PayloadScoreFraction(quiz_payload) ==
    IF "float" \in DOMAIN quiz_payload.score
    THEN quiz_payload.score.float
    ELSE <<quiz_payload.score.int, 1>>

\* two dicts with the same keys and the same values
SameDict(a, b) == DOMAIN a = DOMAIN b /\ \A k \in DOMAIN a : a[k] = b[k]

\* the stored quiz_results; no row yet is the empty dict
StoredQuizResults(st) == IF st = <<>> THEN <<>> ELSE st[1].quiz_results

\* the stored section_status; no row yet is the empty dict
StoredSectionStatus(st) == IF st = <<>> THEN <<>> ELSE st[1].section_status

\* C23: a mark_section_complete call with is_quiz set and a payload that has
\* the four required fields appends exactly one attempt to its section's
\* history: quiz_id as a str, score as a float, answers and
\* incorrect_questions as submitted; a call with is_quiz false, or with no
\* payload, leaves quiz_results as it was when the call began.
C23_QuizAttemptAppended ==
    [][\A s \in Sessions :
          ReturnsOk(s, "mark_section_complete")
              => LET x == sess[s].section_id
                     quiz_payload == sess[s].quiz_payload
                     before == StoredAttempts(sess[s].pre, x)
                     after == StoredAttempts(store', x)
                 IN  IF sess[s].is_quiz /\ RequiredKeys \subseteq DOMAIN quiz_payload
                     THEN /\ Len(after) = Len(before) + 1
                          /\ SubSeq(after, 1, Len(before)) = before
                          /\ after[Len(after)].quiz_id = PayloadIdText(quiz_payload)
                          /\ after[Len(after)].score = PayloadScoreFraction(quiz_payload)
                          /\ SameDict(after[Len(after)].answers, quiz_payload.answers)
                          /\ after[Len(after)].incorrect_questions
                                 = quiz_payload.incorrect_questions
                          /\ \A y \in Sections \ {x} :
                                 StoredAttempts(store', y) = StoredAttempts(sess[s].pre, y)
                     ELSE /\ DOMAIN StoredQuizResults(store')
                                 = DOMAIN StoredQuizResults(sess[s].pre)
                          /\ \A y \in Sections :
                                 StoredAttempts(store', y)
                                     = StoredAttempts(sess[s].pre, y)]_vars

\* a quiz submission with quiz_id 7 and score 100, both ints, has returned for
\* a section that had one attempt: the section has two attempts, the second
\* with quiz_id "7" and score 100.0
C23_Witness ==
    \E s \in Sessions :
        /\ sess[s].op = "mark_section_complete"
        /\ sess[s].pc = "idle"
        /\ sess[s].result = "ok"
        /\ LET before == StoredAttempts(sess[s].pre, sess[s].section_id)
               after == StoredAttempts(store, sess[s].section_id)
           IN  /\ Len(before) = 1
               /\ Len(after) = 2
               /\ after[1] = before[1]
               /\ after[2].quiz_id = <<"7">>
               /\ after[2].score = <<100, 1>>
               /\ after[2].incorrect_questions = <<>>

\* a call with is_quiz false and a complete payload has returned: no attempt
\* was stored
C23_NotQuizNoAttempt ==
    \E s \in Sessions :
        /\ sess[s].op = "mark_section_complete"
        /\ sess[s].pc = "idle"
        /\ sess[s].result = "ok"
        /\ sess[s].pre # <<>>
        /\ StoredStatus(sess[s].pre, sess[s].section_id) # COMPLETED
        /\ StoredStatus(store, sess[s].section_id) = COMPLETED
        /\ DOMAIN StoredQuizResults(store) = {}

\* C26: mark_course_completed returns normally and stores completed = true
\* whatever the section statuses are, and it leaves section_status and
\* quiz_results as they were.
C26_CompletionIgnoresSections ==
    [][\A s \in Sessions :
          (sess[s].pc = "mcc_save" /\ sess'[s] # sess[s])
              => /\ ReturnsOk(s, "mark_course_completed")
                 /\ store'[1].completed = TRUE
                 /\ SameDict(store'[1].section_status, StoredSectionStatus(sess[s].pre))
                 /\ SameDict(store'[1].quiz_results, StoredQuizResults(sess[s].pre))]_vars

\* mark_course_completed has returned and the tracker is stored completed with
\* one section IN_PROGRESS and the other with no status
C26_Witness ==
    /\ store # <<>>
    /\ store[1].completed = TRUE
    /\ \E s \in Sessions :
           /\ sess[s].op = "mark_course_completed"
           /\ sess[s].pc = "idle"
           /\ sess[s].result = "ok"
    /\ \E x \in Sections, y \in Sections :
           /\ StoredStatus(store, x) = IN_PROGRESS
           /\ StoredStatus(store, y) = NOT_STARTED

\* C29: the status and the attempt of a quiz submission reach the store
\* together: whenever a mark_section_complete call with a complete payload has
\* stored COMPLETED for its section, the section's stored history already
\* holds the call's attempt.
C29_StatusAndAttemptTogether ==
    \A s \in Sessions :
        (/\ sess[s].op = "mark_section_complete"
         /\ sess[s].pc = "msc_add_attempt")
            => Len(StoredAttempts(store, sess[s].section_id))
                   > Len(StoredAttempts(sess[s].pre, sess[s].section_id))

\* the other session has read (COMPLETED, []) for the section between the two
\* saves of a quiz submission
C29_Scenario ==
    \E s \in Sessions, t \in Sessions :
        /\ s # t
        /\ sess[s].op = "mark_section_complete"
        /\ sess[s].pc = "msc_add_attempt"
        /\ sess[t].op = "get_section_progress"
        /\ sess[t].section_id = sess[s].section_id
        /\ sess[t].ret = <<COMPLETED, <<>>>>
        /\ StoredStatus(sess[s].pre, sess[s].section_id) # COMPLETED

(***************************************************************************)
(* internal/custom_types/quiz.py: to_dict / from_dict                      *)
(***************************************************************************)
\* QuizType.value: the str of an enum member
QuizTypeValue(member) ==
    IF member = MULTIPLE_CHOICE
    THEN <<"m", "u", "l", "t", "i", "p", "l", "e", "_", "c", "h", "o", "i", "c", "e">>
    ELSE <<"f", "i", "l", "l", "_", "i", "n", "_", "t", "h", "e", "_", "b", "l", "a", "n", "k">>

\* data[key] of an absent key
KeyError(key) == [cls |-> "KeyError", key |-> key]

\* QuizType(value): the member of that value, or ValueError
QuizTypeOf(value) ==
    IF \E member \in QuizType : QuizTypeValue(member) = value
    THEN [cls |-> "QuizType",
          member |-> CHOOSE member \in QuizType : QuizTypeValue(member) = value]
    ELSE [cls |-> "ValueError"]

\* q.to_dict() of a question, dispatched on its class
QuestionToDict(q) ==
    IF q.cls = "MultipleChoiceQuestion" THEN MCToDict(q) ELSE FIBToDict(q)

\* Quiz.to_dict
QuizToDict(qz) ==
    [type |-> QuizTypeValue(qz.type),
     questions |-> [i \in 1..Len(qz.questions) |-> QuestionToDict(qz.questions[i])]]

MCFromDict_DefaultOptions(data) ==
    IF "question" \notin DOMAIN data THEN KeyError("question")
    ELSE IF "justification" \notin DOMAIN data THEN KeyError("justification")
    ELSE IF "correct_answer" \notin DOMAIN data THEN KeyError("correct_answer")
    ELSE MultipleChoiceQuestion(data.question, data.justification,
                                IF "options" \in DOMAIN data THEN data.options ELSE <<>>,
                                data.correct_answer)

\* MultipleChoiceQuestion.from_dict: the keys are read in the order of the call
MCFromDict(data) ==
    IF "question" \notin DOMAIN data THEN KeyError("question")
    ELSE IF "justification" \notin DOMAIN data THEN KeyError("justification")
    ELSE IF "options" \notin DOMAIN data THEN KeyError("options")
    ELSE IF "correct_answer" \notin DOMAIN data THEN KeyError("correct_answer")
    ELSE MultipleChoiceQuestion(data.question, data.justification, data.options,
                                data.correct_answer)

FIBFromDict_Stripped(data) ==
    IF "question" \notin DOMAIN data THEN KeyError("question")
    ELSE IF "justification" \notin DOMAIN data THEN KeyError("justification")
    ELSE IF "correct_answer" \notin DOMAIN data THEN KeyError("correct_answer")
    ELSE FillInBlankQuestion(data.question, data.justification,
                             Strip(data.correct_answer))

\* FillInBlankQuestion.from_dict
FIBFromDict(data) ==
    IF "question" \notin DOMAIN data THEN KeyError("question")
    ELSE IF "justification" \notin DOMAIN data THEN KeyError("justification")
    ELSE IF "correct_answer" \notin DOMAIN data THEN KeyError("correct_answer")
    ELSE FillInBlankQuestion(data.question, data.justification, data.correct_answer)

\* Quiz.from_dict
QuizFromDict(data) ==
    IF "type" \notin DOMAIN data THEN KeyError("type")
    ELSE LET quiz_type == QuizTypeOf(data.type)
         IN  IF quiz_type.cls = "ValueError" THEN quiz_type
             ELSE IF "questions" \notin DOMAIN data THEN KeyError("questions")
             ELSE LET questions ==
                          [i \in 1..Len(data.questions) |->
                              IF quiz_type.member = MULTIPLE_CHOICE
                              THEN MCFromDict(data.questions[i])
                              ELSE FIBFromDict(data.questions[i])]
                      failed == {i \in 1..Len(questions) : questions[i].cls = "KeyError"}
                  IN  IF failed # {}
                      THEN questions[CHOOSE i \in failed : \A j \in failed : i <= j]
                      ELSE Quiz(quiz_type.member, questions)

(***************************************************************************)
(* SpecSerialize: to_dict() of a valid question or quiz, then from_dict()  *)
(* of the record, as it is or with one key lost                            *)
(***************************************************************************)
SerialMCInputs == {q \in MCInputs : MCValidate(q)}
SerialFIBInputs == {q \in FIBInputs : FIBValidate(q)}

OtherValidMC ==
    MultipleChoiceQuestion(<<" ", "a", " ">>, <<"a">>, OptionList(MaxOptions), 0)
OtherValidFIB ==
    FillInBlankQuestion(BlankMarker \o <<"a">>, <<"a">>, <<" ", "a", " ">>)

SerialQuizInputs ==
    {qz \in {Quiz(t, qs) :
                t \in QuizType,
                qs \in SeqsUpTo({ValidMC, OtherValidMC, ValidFIB, OtherValidFIB},
                                MaxQuestions)} :
        QuizValidate(qz)}

InitSerialize ==
    /\ sobj \in SerialMCInputs \cup SerialFIBInputs \cup SerialQuizInputs
    /\ srec = NoneObj
    /\ sresult = NoneObj
    /\ sPc = "new"
    /\ ValidateIdle
    /\ ScoreIdle
    /\ TrackerIdle
    /\ UiIdle

ToDictMultipleChoice ==
    /\ sPc = "new"
    /\ sobj.cls = "MultipleChoiceQuestion"
    /\ srec' = MCToDict(sobj)
    /\ sPc' = "serialized"
    /\ UNCHANGED <<sobj, sresult, validateVars, scoreVars, trackerVars, uiVars>>

ToDictFillInBlank ==
    /\ sPc = "new"
    /\ sobj.cls = "FillInBlankQuestion"
    /\ srec' = FIBToDict(sobj)
    /\ sPc' = "serialized"
    /\ UNCHANGED <<sobj, sresult, validateVars, scoreVars, trackerVars, uiVars>>

ToDictQuiz ==
    /\ sPc = "new"
    /\ sobj.cls = "Quiz"
    /\ srec' = QuizToDict(sobj)
    /\ sPc' = "serialized"
    /\ UNCHANGED <<sobj, sresult, validateVars, scoreVars, trackerVars, uiVars>>

\* the record from_dict() is given lacks one key of the serialized record
LoseKey ==
    /\ sPc = "serialized"
    /\ \E key \in DOMAIN srec : srec' = Without(srec, key)
    /\ sPc' = "damaged"
    /\ UNCHANGED <<sobj, sresult, validateVars, scoreVars, trackerVars, uiVars>>

\* ... or one of its question records lacks a key
LoseQuestionKey ==
    /\ sPc = "serialized"
    /\ sobj.cls = "Quiz"
    /\ \E i \in 1..Len(srec.questions) :
           \E key \in DOMAIN srec.questions[i] :
               srec' = [srec EXCEPT !.questions[i] = Without(@, key)]
    /\ sPc' = "damaged"
    /\ UNCHANGED <<sobj, sresult, validateVars, scoreVars, trackerVars, uiVars>>

\* the state after from_dict()
Loaded == IF sPc = "serialized" THEN "done" ELSE "done_damaged"

FromDictMultipleChoice ==
    /\ sPc \in {"serialized", "damaged"}
    /\ sobj.cls = "MultipleChoiceQuestion"
    /\ sresult' = MCFromDict(srec)
    /\ sPc' = Loaded
    /\ UNCHANGED <<sobj, srec, validateVars, scoreVars, trackerVars, uiVars>>

FromDictFillInBlank ==
    /\ sPc \in {"serialized", "damaged"}
    /\ sobj.cls = "FillInBlankQuestion"
    /\ sresult' = FIBFromDict(srec)
    /\ sPc' = Loaded
    /\ UNCHANGED <<sobj, srec, validateVars, scoreVars, trackerVars, uiVars>>

FromDictQuiz ==
    /\ sPc \in {"serialized", "damaged"}
    /\ sobj.cls = "Quiz"
    /\ sresult' = QuizFromDict(srec)
    /\ sPc' = Loaded
    /\ UNCHANGED <<sobj, srec, validateVars, scoreVars, trackerVars, uiVars>>

NextSerialize ==
    \/ ToDictMultipleChoice
    \/ ToDictFillInBlank
    \/ ToDictQuiz
    \/ LoseKey
    \/ LoseQuestionKey
    \/ FromDictMultipleChoice
    \/ FromDictFillInBlank
    \/ FromDictQuiz

SpecSerialize == InitSerialize /\ [][NextSerialize]_vars

(***************************************************************************)
(* Claims about serialization                                              *)
(***************************************************************************)
\* every question of the quiz is of the variant the quiz type names
Homogeneous(qz) ==
    \A i \in 1..Len(qz.questions) : qz.questions[i].cls = VariantOf(qz.type)

\* C18: from_dict(to_dict(q)) equals q, field by field, for every valid
\* MultipleChoiceQuestion, FillInBlankQuestion and Quiz q (valid as validate()
\* has it).
C18_RoundTripEveryValid ==
    sPc = "done" => sresult = sobj

\* C18, amended: from_dict(to_dict(q)) equals q, field by field, for every
\* valid MultipleChoiceQuestion, every valid FillInBlankQuestion and every valid
\* Quiz whose questions are all of the variant its type names.
C18_RoundTrip ==
    (sPc = "done" /\ (sobj.cls = "Quiz" => Homogeneous(sobj)))
        => /\ sresult.cls = sobj.cls
           /\ sresult = sobj

\* a quiz of two different questions has come back equal, in the same order
C18_Witness ==
    /\ sPc = "done"
    /\ sobj.cls = "Quiz"
    /\ Homogeneous(sobj)
    /\ Len(sobj.questions) = 2
    /\ sobj.questions[1] # sobj.questions[2]
    /\ sresult = sobj

\* an object that validate() accepts although its questions are not of the
\* variant of its type does not come back: from_dict raises
C18_MixedVariantRaises ==
    /\ sPc = "done"
    /\ sobj.cls = "Quiz"
    /\ ~Homogeneous(sobj)
    /\ sresult.cls = "KeyError"

\* the keys from_dict of a class must find in a record
RecordKeys(cls) ==
    IF cls = "MultipleChoiceQuestion"
    THEN {"question", "justification", "options", "correct_answer"}
    ELSE IF cls = "FillInBlankQuestion"
    THEN {"question", "justification", "correct_answer"}
    ELSE {"type", "questions"}

\* the record lacks a key that its class (for a question of a quiz: the variant
\* named by the quiz's type tag) requires
LacksRequiredKey(rec, cls) ==
    \/ ~(RecordKeys(cls) \subseteq DOMAIN rec)
    \/ /\ cls = "Quiz"
       /\ RecordKeys(cls) \subseteq DOMAIN rec
       /\ \E i \in 1..Len(rec.questions) :
              ~(RecordKeys(IF rec.type = QuizTypeValue(MULTIPLE_CHOICE)
                           THEN "MultipleChoiceQuestion"
                           ELSE "FillInBlankQuestion")
                    \subseteq DOMAIN rec.questions[i])

\* C19: from_dict of a question or quiz record that lacks a required key fails
\* with an error (KeyError); it returns no object.
C19_MissingKeyFails ==
    (sPc = "done_damaged" /\ LacksRequiredKey(srec, sobj.cls))
        => sresult.cls = "KeyError"

\* Quiz.from_dict has failed on a record whose second question lacks
\* correct_answer, the rest being complete
C19_Witness ==
    /\ sPc = "done_damaged"
    /\ sobj.cls = "Quiz"
    /\ Homogeneous(sobj)
    /\ {"type", "questions"} \subseteq DOMAIN srec
    /\ Len(srec.questions) = 2
    /\ ~LacksRequiredKey(srec.questions[1], sobj.questions[1].cls)
    /\ "correct_answer" \notin DOMAIN srec.questions[2]
    /\ sresult = KeyError("correct_answer")

(***************************************************************************)
(* SpecValidateAny: validate() of question objects whose fields may hold   *)
(* a value of another type (a dataclass does not check its fields)         *)
(***************************************************************************)
PyNone == [none |-> TRUE]
PyList(items) == [list |-> items]

IsStr(v) == "str" \in DOMAIN v
IsInt(v) == "int" \in DOMAIN v
IsList(v) == "list" \in DOMAIN v

\* what a call returned, or the exception it raised
Returned(value) == [error |-> "none", value |-> value]
Raised(error) == [error |-> error, value |-> FALSE]

\* bool(text.strip()): AttributeError unless text is a str
StripTruthy(text) ==
    IF IsStr(text) THEN Returned(Truthy(Strip(text.str))) ELSE Raised("AttributeError")

\* a and b, b being evaluated only when a returned True
AndThen(a, b) == IF a.error # "none" \/ ~a.value THEN a ELSE b

\* len(self.options) > 1: TypeError unless options has a length
OptionsMoreThanOne(q) ==
    IF IsList(q.options) THEN Returned(Len(q.options.list) > 1) ELSE Raised("TypeError")

\* 0 <= self.correct_answer < len(self.options): TypeError unless it is a number
CorrectAnswerInRange(q) ==
    IF IsInt(q.correct_answer)
    THEN Returned(0 <= q.correct_answer.int /\ q.correct_answer.int < Len(q.options.list))
    ELSE Raised("TypeError")

\* MultipleChoiceQuestion.validate on any field values
MCValidateAny(q) ==
    AndThen(OptionsMoreThanOne(q),
    AndThen(CorrectAnswerInRange(q),
    AndThen(StripTruthy(q.question), StripTruthy(q.justification))))

\* "_____" in self.question: TypeError unless question is a container
ContainsMarker(q) ==
    IF IsStr(q.question) THEN Returned(Contains(q.question.str, BlankMarker))
    ELSE Raised("TypeError")

\* FillInBlankQuestion.validate on any field values
FIBValidateAny(q) ==
    AndThen(ContainsMarker(q),
    AndThen(StripTruthy(q.correct_answer),
    AndThen(StripTruthy(q.question), StripTruthy(q.justification))))

AnyText == {PyStr(<<"a">>), PyStr(<<>>), PyNone, PyInt(1)}

AnyMCInputs ==
    {MultipleChoiceQuestion(qt, j, o, c) :
        qt \in AnyText, j \in AnyText,
        o \in {PyList(OptionList(n)) : n \in 0..MaxOptions} \cup {PyNone},
        c \in {PyInt(k) : k \in -1..MaxOptions} \cup {PyStr(<<"1">>), PyNone}}

AnyFIBInputs ==
    {FillInBlankQuestion(qt, j, c) :
        qt \in {PyStr(<<"a">> \o BlankMarker), PyStr(<<"a">>), PyNone, PyInt(1)},
        j \in AnyText, c \in AnyText}

InitValidateAny ==
    /\ vobj \in AnyMCInputs \cup AnyFIBInputs
    /\ vPc = "new"
    /\ vresult = None
    /\ ScoreIdle
    /\ TrackerIdle
    /\ SerializeIdle
    /\ UiIdle

ValidateAnyMultipleChoice ==
    /\ vPc = "new"
    /\ vobj.cls = "MultipleChoiceQuestion"
    /\ vresult' = MCValidateAny(vobj)
    /\ vPc' = "done"
    /\ UNCHANGED <<vobj, scoreVars, trackerVars, serializeVars, uiVars>>

ValidateAnyFillInBlank ==
    /\ vPc = "new"
    /\ vobj.cls = "FillInBlankQuestion"
    /\ vresult' = FIBValidateAny(vobj)
    /\ vPc' = "done"
    /\ UNCHANGED <<vobj, scoreVars, trackerVars, serializeVars, uiVars>>

NextValidateAny == ValidateAnyMultipleChoice \/ ValidateAnyFillInBlank

SpecValidateAny == InitValidateAny /\ [][NextValidateAny]_vars

\* every field of the question holds a value of its declared type
WellTyped(q) ==
    /\ IsStr(q.question)
    /\ IsStr(q.justification)
    /\ IF q.cls = "MultipleChoiceQuestion"
       THEN IsList(q.options) /\ IsInt(q.correct_answer)
       ELSE IsStr(q.correct_answer)

\* the question with its field values untagged
Untagged(q) ==
    IF q.cls = "MultipleChoiceQuestion"
    THEN MultipleChoiceQuestion(q.question.str, q.justification.str, q.options.list,
                                q.correct_answer.int)
    ELSE FillInBlankQuestion(q.question.str, q.justification.str, q.correct_answer.str)

\* C20: validate never raises: for every question value, one whose field holds
\* a value of the wrong type included, it returns (False on a violation).
C20_ValidateNeverRaises ==
    vPc = "done" => vresult.error = "none"

\* on well-typed questions validate returns what MCValidate / FIBValidate say
C20_WellTypedReturns ==
    (vPc = "done" /\ WellTyped(vobj))
        => vresult = Returned(QuestionValidate(Untagged(vobj)))

\* validate has raised TypeError on a multiple-choice question with texts and
\* two options whose correct_answer is the str "1"
C20_Scenario ==
    /\ vPc = "done"
    /\ vobj.cls = "MultipleChoiceQuestion"
    /\ vobj.question = PyStr(<<"a">>)
    /\ vobj.justification = PyStr(<<"a">>)
    /\ vobj.options = PyList(OptionList(2))
    /\ vobj.correct_answer = PyStr(<<"1">>)
    /\ vresult = Raised("TypeError")

C30_FeedbackAgreesWithScore ==
    /\ scorePc # "raised"
    /\ (scorePc = "returned" /\ quiz_submitted)
           => \A i \in 0..(Len(quiz_data.questions) - 1) :
                  /\ feedback[i + 1] \in {"Correct", "Incorrect"}
                  /\ feedback[i + 1] = "Incorrect" <=> i \in Range(incorrect_questions)

\* a submitted two-question multiple-choice quiz: the first option, which is
\* the correct one, is selected on the first question and a wrong option on the
\* second; the feedback is Correct, Incorrect and the incorrect indices are [1]
C30_Witness ==
    /\ scorePc = "returned"
    /\ quiz_submitted
    /\ quiz_data.type = MULTIPLE_CHOICE
    /\ Len(quiz_data.questions) = 2
    /\ quiz_data.questions[1].correct_answer = 0
    /\ widgets[1] = 0
    /\ feedback = <<"Correct", "Incorrect">>
    /\ incorrect_questions = <<1>>
    /\ score = <<50, 1>>

\* a submitted fill-in-the-blank question left empty is shown Incorrect and
\* scored incorrect
C30_EmptyAnswer ==
    /\ scorePc = "returned"
    /\ quiz_submitted
    /\ quiz_data.type = FILL_IN_THE_BLANK
    /\ widgets = <<<<>>>>
    /\ feedback = <<"Incorrect">>
    /\ incorrect_questions = <<0>>

(***************************************************************************)
(* The quiz editor (pages/quiz_editor.py).  One action is one run of       *)
(* quiz_editor_page on a section: the load of the stored quiz, the quiz    *)
(* type check, and at most one pressed button.  st.session_state.quiz,     *)
(* quiz_loaded and ai_generated_questions live as long as the browser      *)
(* session, whichever section the page is opened on.                       *)
(***************************************************************************)
EditorSections == {1, 2}

MaxGenerated == 1

\* the fields of the manual form when "Add Question" is submitted
FormQuestions(type) ==
    IF type = MULTIPLE_CHOICE
    THEN {MultipleChoiceQuestion(<<"a">>, <<"a">>, OptionList(n), 0) : n \in 1..2}
    ELSE {FillInBlankQuestion(text, <<"a">>, Paris) : text \in {BlankMarker, <<"a">>}}

\* create_multiple_choice_question / create_fill_in_blank_question: the object
\* when it validates, else None
CreateQuestion(form) == IF QuestionValidate(form) THEN form ELSE NoneObj

\* the dicts generate_quiz_questions lets through for a quiz type: every key is
\* there, the options are a list of two or more, correct_answer is in range,
\* a fill-in-the-blank question has the marker; no text is checked for blanks
GeneratedQuestions(type) ==
    IF type = MULTIPLE_CHOICE
    THEN {[question |-> <<"b">>, options |-> OptionList(2), correct_answer |-> 1,
           justification |-> <<"b">>],
          [question |-> BlankMarker, options |-> OptionList(2), correct_answer |-> 0,
           justification |-> <<" ">>]}
    ELSE {[question |-> BlankMarker \o <<"b">>, correct_answer |-> <<"b">>,
           justification |-> <<"b">>],
          [question |-> BlankMarker, correct_answer |-> <<" ">>,
           justification |-> <<"b">>]}

\* the question object built from a dict for a quiz type (lines 274-285 and
\* 109-121).  A FillInBlankQuestion built from a multiple-choice dict holds an
\* int where a str belongs: the model keeps that value apart, in
\* int_correct_answer.
QuestionOfType(type, data) ==
    IF type = MULTIPLE_CHOICE
    THEN MultipleChoiceQuestion(data.question, data.justification, data.options,
                                data.correct_answer)
    ELSE IF "options" \in DOMAIN data
    THEN [cls |-> "FillInBlankQuestion", question |-> data.question,
          justification |-> data.justification,
          int_correct_answer |-> data.correct_answer]
    ELSE FillInBlankQuestion(data.question, data.justification, data.correct_answer)

\* question.validate() in the editor: self.correct_answer.strip() of an int
\* raises AttributeError, once the marker was found
EditorQuestionValidate(q) ==
    IF "int_correct_answer" \in DOMAIN q
    THEN IF Contains(q.question, BlankMarker) THEN Raised("AttributeError")
         ELSE Returned(FALSE)
    ELSE Returned(QuestionValidate(q))

\* st.session_state.quiz.validate(): all() stops at the first question that is
\* invalid or raises
EditorQuizValidate(qz) ==
    IF qz.questions = <<>> THEN Returned(FALSE)
    ELSE LET outcome(k) == EditorQuestionValidate(qz.questions[k])
             stops == {k \in 1..Len(qz.questions) :
                          outcome(k).error # "none" \/ ~outcome(k).value}
         IN  IF stops = {} THEN Returned(TRUE)
             ELSE outcome(CHOOSE k \in stops : \A j \in stops : k <= j)

\* lines 264-287: the stored quiz as a Quiz object, its invalid questions left out
LoadedQuiz(quiz_row) ==
    LET type == QuizTypeOf(quiz_row.type).member
        built == [k \in 1..Len(quiz_row.questions) |->
                     QuestionOfType(type, quiz_row.questions[k])]
    IN  Quiz(type, SelectSeq(built, LAMBDA q : EditorQuestionValidate(q).value))

\* display_ai_generated_question raises KeyError on question["options"] when a
\* multiple-choice card is drawn from a fill-in-the-blank dict
CardRaises(type, data) == type = MULTIPLE_CHOICE /\ "options" \notin DOMAIN data

\* lines 254-308 of a run on section_id with type in the selectbox: the session
\* state after them, and whether st.rerun() ended the run there
PageTop(section_id, type) ==
    LET quiz_row == section_quiz[section_id]
        load == quiz_row # NoneObj /\ ~quiz_loaded
        loaded == IF load THEN LoadedQuiz(quiz_row) ELSE quiz
        changed == type # loaded.type
    IN  [quiz |-> IF changed THEN Quiz(type, <<>>) ELSE loaded,
         ai_generated_questions |->
             IF changed THEN <<>> ELSE ai_generated_questions,
         quiz_loaded |-> quiz_loaded \/ load,
         rerun |-> changed]

\* list.pop(index); the list as it is when index is past its end
PopAt(questions, index) ==
    IF index >= Len(questions) THEN questions
    ELSE [k \in 1..(Len(questions) - 1) |->
             IF k <= index THEN questions[k] ELSE questions[k + 1]]

\* mutant of RemoveMarked: the marked indices are popped lowest first
RECURSIVE RemoveMarked_Ascending(_, _)
RemoveMarked_Ascending(questions, marked) ==
    IF marked = {} THEN questions
    ELSE LET index == CHOOSE i \in marked : \A j \in marked : i <= j
         IN  RemoveMarked_Ascending(PopAt(questions, index), marked \ {index})

\* lines 230-233: for index in sorted(questions_to_delete, reverse=True): pop
RECURSIVE RemoveMarked(_, _)
RemoveMarked(questions, marked) ==
    IF marked = {} THEN questions
    ELSE LET index == CHOOSE i \in marked : \A j \in marked : i >= j
         IN  RemoveMarked(PopAt(questions, index), marked \ {index})

\* list.remove(x): the list without the first element equal to x
ListRemove(list, k) ==
    [j \in 1..(Len(list) - 1) |-> IF j < k THEN list[j] ELSE list[j + 1]]

\* a browser session opens the editor: lines 241-249
InitEditor ==
    /\ ValidateIdle /\ ScoreIdle /\ TrackerIdle /\ SerializeIdle
    /\ ReplayIdle /\ QuizPageIdle /\ PageIdle
    /\ quiz = Quiz(MULTIPLE_CHOICE, <<>>)
    /\ ai_generated_questions = <<>>
    /\ quiz_loaded = FALSE
    /\ selected_quiz_type = MULTIPLE_CHOICE
    /\ selected_section_id \in EditorSections
    /\ section_quiz = [section_id \in EditorSections |-> NoneObj]
    /\ questions_to_delete = {}

nonEditorVars == <<validateVars, scoreVars, trackerVars, serializeVars, replayVars,
                   quizPageVars, pageVars>>

\* the session state a run leaves behind
EditorState(top, questions, generated) ==
    /\ quiz' = Quiz(top.quiz.type, questions)
    /\ ai_generated_questions' = generated
    /\ quiz_loaded' = top.quiz_loaded

\* a run that ends at st.rerun() in line 308, its button press lost
Rerun(top) ==
    /\ EditorState(top, top.quiz.questions, top.ai_generated_questions)
    /\ questions_to_delete' = {}
    /\ UNCHANGED section_quiz

\* whether the run gets past the "AI Generated Questions" cards
CardsDrawn(top, generated) ==
    \A k \in 1..Len(generated) : ~CardRaises(top.quiz.type, generated[k])

\* the page is opened on a section, or the selectbox is changed, and no button
\* is pressed
ViewPage(section_id, type) ==
    /\ selected_section_id' = section_id
    /\ selected_quiz_type' = type
    /\ Rerun(PageTop(section_id, type))
    /\ UNCHANGED nonEditorVars

\* "Add Question" is submitted with the form filled in (lines 326-331)
AddQuestion(form) ==
    LET top == PageTop(selected_section_id, selected_quiz_type)
        new_question == CreateQuestion(form)
    IN  /\ form \in FormQuestions(selected_quiz_type)
        /\ Len(top.quiz.questions) < MaxQuestions
        /\ IF top.rerun THEN Rerun(top)
           ELSE /\ EditorState(top,
                       IF new_question # NoneObj /\ QuestionValidate(new_question)
                       THEN Append(top.quiz.questions, new_question)
                       ELSE top.quiz.questions,
                       top.ai_generated_questions)
                /\ questions_to_delete' = {}
                /\ UNCHANGED section_quiz
        /\ UNCHANGED <<selected_section_id, selected_quiz_type, nonEditorVars>>

\* "Generate Questions" is pressed (lines 342-355)
GenerateQuestions(generated_questions) ==
    LET top == PageTop(selected_section_id, selected_quiz_type)
    IN  /\ generated_questions \in
               SeqsUpTo(GeneratedQuestions(selected_quiz_type), MaxGenerated)
        /\ IF top.rerun THEN Rerun(top)
           ELSE /\ EditorState(top, top.quiz.questions,
                       IF generated_questions # <<>> THEN generated_questions
                       ELSE top.ai_generated_questions)
                /\ questions_to_delete' = {}
                /\ UNCHANGED section_quiz
        /\ UNCHANGED <<selected_section_id, selected_quiz_type, nonEditorVars>>

\* "Add" is pressed on the k-th generated question (lines 362-368)
AddGeneratedQuestion(k) ==
    LET top == PageTop(selected_section_id, selected_quiz_type)
        generated == top.ai_generated_questions
    IN  /\ k \in 1..Len(ai_generated_questions)
        /\ Len(top.quiz.questions) < MaxQuestions
        /\ IF top.rerun THEN Rerun(top)
           ELSE IF \E j \in 1..k : CardRaises(top.quiz.type, generated[j])
           THEN Rerun(top)
           ELSE /\ EditorState(top,
                       Append(top.quiz.questions,
                              QuestionOfType(top.quiz.type, generated[k])),
                       ListRemove(generated,
                                  CHOOSE j \in 1..k : generated[j] = generated[k]
                                      /\ \A i \in 1..(j - 1) : generated[i] # generated[k]))
                /\ questions_to_delete' = {}
                /\ UNCHANGED section_quiz
        /\ UNCHANGED <<selected_section_id, selected_quiz_type, nonEditorVars>>

\* "Remove" is pressed in manage_quiz_questions (lines 204-233); the function
\* takes any number of marked indices
RemoveQuestions(marked) ==
    LET top == PageTop(selected_section_id, selected_quiz_type)
    IN  /\ marked # {}
        /\ marked \subseteq 0..(Len(quiz.questions) - 1)
        /\ IF top.rerun \/ ~CardsDrawn(top, top.ai_generated_questions)
                \/ top.quiz.questions = <<>>
           THEN Rerun(top)
           ELSE /\ EditorState(top, RemoveMarked(top.quiz.questions, marked),
                               top.ai_generated_questions)
                /\ questions_to_delete' = marked
                /\ UNCHANGED section_quiz
        /\ UNCHANGED <<selected_section_id, selected_quiz_type, nonEditorVars>>

\* mutant of SaveQuiz: the quiz is written whether it validates or not
SaveQuiz_Unvalidated ==
    LET top == PageTop(selected_section_id, selected_quiz_type)
    IN  /\ quiz.questions # <<>>
        /\ IF top.rerun \/ ~CardsDrawn(top, top.ai_generated_questions)
                \/ top.quiz.questions = <<>>
           THEN Rerun(top)
           ELSE /\ EditorState(top, top.quiz.questions, top.ai_generated_questions)
                /\ questions_to_delete' = {}
                /\ section_quiz' =
                       [section_quiz EXCEPT ![selected_section_id] =
                           [type |-> QuizTypeValue(top.quiz.type),
                            questions |->
                                [k \in 1..Len(top.quiz.questions) |->
                                    IF "int_correct_answer" \in DOMAIN top.quiz.questions[k]
                                    THEN [question |-> top.quiz.questions[k].question,
                                          justification |->
                                              top.quiz.questions[k].justification,
                                          correct_answer |-> <<>>]
                                    ELSE QuestionToDict(top.quiz.questions[k])]]]
        /\ UNCHANGED <<selected_section_id, selected_quiz_type, nonEditorVars>>

\* "Save Quiz" is pressed (lines 385-428): one save() of the quiz row, or one
\* create() of it and the link from the section
SaveQuiz ==
    LET top == PageTop(selected_section_id, selected_quiz_type)
        valid == EditorQuizValidate(top.quiz)
    IN  /\ quiz.questions # <<>>
        /\ IF top.rerun \/ ~CardsDrawn(top, top.ai_generated_questions)
                \/ top.quiz.questions = <<>>
           THEN Rerun(top)
           ELSE /\ EditorState(top, top.quiz.questions, top.ai_generated_questions)
                /\ questions_to_delete' = {}
                /\ IF valid.error = "none" /\ valid.value
                   THEN section_quiz' =
                            [section_quiz EXCEPT ![selected_section_id] =
                                QuizToDict(top.quiz)]
                   ELSE UNCHANGED section_quiz
        /\ UNCHANGED <<selected_section_id, selected_quiz_type, nonEditorVars>>

\* "Clear All Questions" is pressed (lines 431-434)
ClearAllQuestions ==
    LET top == PageTop(selected_section_id, selected_quiz_type)
    IN  /\ quiz.questions # <<>>
        /\ IF top.rerun \/ ~CardsDrawn(top, top.ai_generated_questions)
                \/ top.quiz.questions = <<>>
           THEN Rerun(top)
           ELSE /\ EditorState(top, <<>>, <<>>)
                /\ questions_to_delete' = {}
                /\ UNCHANGED section_quiz
        /\ UNCHANGED <<selected_section_id, selected_quiz_type, nonEditorVars>>

\* another browser session opens the editor: a fresh st.session_state
NewSession ==
    /\ quiz' = Quiz(MULTIPLE_CHOICE, <<>>)
    /\ ai_generated_questions' = <<>>
    /\ quiz_loaded' = FALSE
    /\ selected_quiz_type' = MULTIPLE_CHOICE
    /\ selected_section_id' \in EditorSections
    /\ questions_to_delete' = {}
    /\ UNCHANGED <<section_quiz, nonEditorVars>>

NextEditor ==
    \/ \E section_id \in EditorSections, type \in QuizType : ViewPage(section_id, type)
    \/ \E type \in QuizType : \E form \in FormQuestions(type) : AddQuestion(form)
    \/ \E type \in QuizType :
           \E generated_questions \in SeqsUpTo(GeneratedQuestions(type), MaxGenerated) :
               GenerateQuestions(generated_questions)
    \/ \E k \in 1..MaxGenerated : AddGeneratedQuestion(k)
    \/ \E marked \in SUBSET (0..(MaxQuestions - 1)) : RemoveQuestions(marked)
    \/ SaveQuiz
    \/ ClearAllQuestions
    \/ NewSession

SpecEditor == InitEditor /\ [][NextEditor]_vars

(***************************************************************************)
(* manage_quiz_questions on its own: the editor holds any quiz of up to    *)
(* MaxInEdit questions and one run removes the marked ones.                *)
(***************************************************************************)
MaxInEdit == 4

\* the questions the editor can put into a quiz of a type
InEditQuestions(type) ==
    ({CreateQuestion(form) : form \in FormQuestions(type)} \ {NoneObj})
        \cup {QuestionOfType(type, data) : data \in GeneratedQuestions(type)}

InitRemove ==
    /\ ValidateIdle /\ ScoreIdle /\ TrackerIdle /\ SerializeIdle
    /\ ReplayIdle /\ QuizPageIdle /\ PageIdle
    /\ \E type \in QuizType :
           /\ selected_quiz_type = type
           /\ \E questions \in SeqsUpTo(InEditQuestions(type), MaxInEdit) :
                  quiz = Quiz(type, questions)
    /\ ai_generated_questions = <<>>
    /\ quiz_loaded = FALSE
    /\ selected_section_id = 1
    /\ section_quiz = [section_id \in EditorSections |-> NoneObj]
    /\ questions_to_delete = {}

NextRemove ==
    \E marked \in SUBSET (0..(MaxInEdit - 1)) : RemoveQuestions(marked)

SpecRemove == InitRemove /\ [][NextRemove]_vars

(***************************************************************************)
(* Claims about the quiz editor                                            *)
(***************************************************************************)
\* the questions whose index (from 0) is not marked, in their order
KeptQuestions(questions, marked) ==
    LET kept[k \in 0..Len(questions)] ==
            IF k = 0 THEN <<>>
            ELSE IF (k - 1) \in marked THEN kept[k - 1]
            ELSE Append(kept[k - 1], questions[k])
    IN  kept[Len(questions)]

\* C24: a removal of marked indices leaves exactly the questions that were at
\* the other indices before it, in their original relative order, and nothing
\* else of the in-edit quiz changes.
C24_RemovalExact ==
    [][questions_to_delete' # {}
         => /\ quiz'.questions = KeptQuestions(quiz.questions, questions_to_delete')
            /\ Len(quiz'.questions)
                   = Len(quiz.questions) - Cardinality(questions_to_delete')
            /\ quiz'.type = quiz.type
            /\ ai_generated_questions' = ai_generated_questions]_vars

\* two questions are removed at once and two are left, which were first and
\* third of four
C24_Witness ==
    /\ Cardinality(questions_to_delete) = 2
    /\ 0 \notin questions_to_delete /\ 2 \notin questions_to_delete
    /\ Len(quiz.questions) = 2
    /\ quiz.questions[1] # quiz.questions[2]

\* a stored quiz row holds a quiz type, at least one question, and only
\* questions that validate as the variant of that type
StoredQuizValid(quiz_row) ==
    LET type == QuizTypeOf(quiz_row.type)
    IN  /\ type.cls = "QuizType"
        /\ quiz_row.questions # <<>>
        /\ \A k \in 1..Len(quiz_row.questions) :
               QuestionValidate(QuestionOfType(type.member, quiz_row.questions[k]))

\* C21: the quiz row of a section changes only in a run whose in-edit quiz
\* validates, and it then holds the type and every question of that quiz; no
\* other row changes; a stored quiz is never empty and never holds an invalid
\* question.
C21_SavedOnlyWhenValid ==
    /\ [](\A section_id \in EditorSections :
              section_quiz[section_id] # NoneObj
                  => StoredQuizValid(section_quiz[section_id]))
    /\ [][section_quiz' # section_quiz
            => /\ EditorQuizValidate(quiz') = Returned(TRUE)
               /\ section_quiz'[selected_section_id] = QuizToDict(quiz')
               /\ \A section_id \in EditorSections \ {selected_section_id} :
                      section_quiz'[section_id] = section_quiz[section_id]]_vars

\* a quiz of two questions is stored for the open section while the editor
\* holds, after the save, a generated question that does not validate
C21_Witness ==
    /\ section_quiz[selected_section_id] # NoneObj
    /\ Len(section_quiz[selected_section_id].questions) = 2
    /\ Len(quiz.questions) = 2
    /\ EditorQuizValidate(quiz) # Returned(TRUE)

\* C25: every question of the in-edit quiz is of the variant of the quiz's
\* type, and a run that changes the in-edit quiz's type leaves in it none of
\* the questions it held and leaves no pending generated question.
C25_OneVariantAndTypeChangeDiscards ==
    /\ [](Homogeneous(quiz))
    /\ [][quiz'.type # quiz.type
            => /\ \A k \in 1..Len(quiz.questions), j \in 1..Len(quiz'.questions) :
                      quiz'.questions[j] # quiz.questions[k]
               /\ ai_generated_questions' = <<>>]_vars

\* the part of C25 that holds: every in-edit question is of the class of the
\* quiz's type, and a run in which the selectbox differs from the type of the
\* in-edit quiz, the load included, ends with an empty quiz of the selected
\* type and no pending generated question
C25_VariantMatchesAndSelectDiscards ==
    /\ [](Homogeneous(quiz) /\ quiz.type = selected_quiz_type)
    /\ [][PageTop(selected_section_id', selected_quiz_type').rerun
            => /\ quiz' = Quiz(selected_quiz_type', <<>>)
               /\ ai_generated_questions' = <<>>]_vars

\* a stored multiple-choice quiz was loaded over a fill-in-the-blank quiz, and
\* the fill-in-the-blank questions that were generated are still pending: the
\* next card drawn raises KeyError
C25_Scenario ==
    /\ quiz.type = MULTIPLE_CHOICE
    /\ quiz.questions # <<>>
    /\ ai_generated_questions # <<>>
    /\ CardRaises(quiz.type, ai_generated_questions[1])

\* a FillInBlankQuestion was added from a pending multiple-choice dict: its
\* correct_answer is an int
C25_IntAnswer ==
    \E k \in 1..Len(quiz.questions) : "int_correct_answer" \in DOMAIN quiz.questions[k]

(***************************************************************************)
(* The student pages (pages/course_index.py, take_content.py,              *)
(* take_quiz.py) driven by one browser session.  One action is one script  *)
(* run with at most one pressed button, together with the run that         *)
(* st.rerun() starts on the page the button chose.  The handler calls of a *)
(* run are awaited one after the other, so each is applied whole.          *)
(***************************************************************************)
CONTENT == "content"
QUIZ == "quiz"
LessonType == {CONTENT, QUIZ}

MaxSections == 2
MaxAttempts == 1

\* str(section.id) of the section at an index of the sorted outline
SectionId(index) == StrOfInt(index + 1)

\* get_or_create_progress on a store
RowOf(st) == IF st = <<>> THEN NewTracker(1) ELSE st[1]

\* await start_section(course_id, section_id, section_index), start to end
StartSectionOn(st, section_id, section_index) ==
    <<WithCurrentSection(WithSectionStatus(RowOf(st), section_id, IN_PROGRESS),
                         section_index)>>

\* await mark_section_complete(course_id, section_id, is_quiz, quiz_data)
MarkSectionCompleteOn(st, section_id, is_quiz, quiz_payload, now) ==
    LET progress == WithSectionStatus(RowOf(st), section_id, COMPLETED)
    IN  IF is_quiz /\ PayloadTruthy(quiz_payload) /\ HasRequiredKeys(quiz_payload)
        THEN <<WithQuizAttempt(progress, section_id,
                   QuizAttempt(StrOf(quiz_payload.quiz_id), FloatOf(quiz_payload.score),
                               now, quiz_payload.answers,
                               quiz_payload.incorrect_questions))>>
        ELSE <<progress>>

\* await mark_course_completed(course_id)
MarkCourseCompletedOn(st, now) == <<WithCourseCompleted(RowOf(st), now)>>

\* mark_course_completed(course_id) without await, in a plain def: the
\* coroutine object is made and dropped, its body never runs
NeverAwaited(st) == st

\* save_quiz_attempt's quiz_data for what display_quiz returned
QuizPayload(section_id) ==
    [quiz_id |-> PyStr(section_id), score |-> PyFloat(<<50, 1>>),
     answers |-> (<<"0">> :> <<"1">>) @@ (<<"1">> :> <<"2">>),
     incorrect_questions |-> <<1>>]

\* mutant of ContentTop: start_section is called whatever the status is
ContentTop_AlwaysStarts(st, section_index) ==
    StartSectionOn(<<RowOf(st)>>, SectionId(section_index), section_index)

\* take_content_page, lines 93-101: get_section_progress, then start_section
\* unless the section is completed
ContentTop(st, section_index) ==
    IF GetSectionStatus(RowOf(st), SectionId(section_index)) # COMPLETED
    THEN StartSectionOn(<<RowOf(st)>>, SectionId(section_index), section_index)
    ELSE <<RowOf(st)>>

\* the handler calls a page makes before its buttons: get_course_progress on
\* the index, get_section_progress on the quiz page
PageTopCalls(page, st, section_index) ==
    IF page = "take_content" THEN ContentTop(st, section_index) ELSE <<RowOf(st)>>

\* the page a section of a type is taken on
PageOf(type) == IF type = QUIZ THEN "take_quiz" ELSE "take_content"

InitPages ==
    /\ ValidateIdle /\ ScoreIdle /\ SerializeIdle
    /\ ReplayIdle /\ QuizPageIdle /\ EditorIdle
    /\ store = <<>> /\ sess = <<>> /\ clock = 0 /\ calls = 0
    /\ sections \in {layout \in SeqsUpTo(LessonType, MaxSections) : layout # <<>>}
    /\ current_page = "course_index"
    /\ current_section_index = 0
    /\ quiz_submitted = FALSE

nonPageVars == <<validateVars, scoreVars, serializeVars, replayVars, quizPageVars,
                 editorVars, sess, calls, sections>>

\* the run that follows st.rerun(), on page with no button pressed
RerunOn(page, st, section_index) ==
    /\ current_page' = page
    /\ current_section_index' = section_index
    /\ store' = PageTopCalls(page, st, section_index)

\* a run of the current page with no button pressed
ViewPage_Student ==
    /\ RerunOn(current_page, store, current_section_index)
    /\ UNCHANGED <<quiz_submitted, clock, nonPageVars>>

\* course_index_page, "Open Section" of the section at index i
OpenSection(i) ==
    /\ current_page = "course_index"
    /\ i \in 0..(Len(sections) - 1)
    /\ RerunOn(PageOf(sections[i + 1]), <<RowOf(store)>>, i)
    /\ UNCHANGED <<quiz_submitted, clock, nonPageVars>>

\* take_content_page, "Back to Course Index"
ContentBack ==
    /\ current_page = "take_content"
    /\ RerunOn("course_index", ContentTop(store, current_section_index),
               current_section_index)
    /\ UNCHANGED <<quiz_submitted, clock, nonPageVars>>

\* take_content_page, "Mark Complete & Continue" (lines 119-135)
ContentMarkCompleteContinue ==
    /\ current_page = "take_content"
    /\ current_section_index < Len(sections) - 1
    /\ LET top == ContentTop(store, current_section_index)
           marked == MarkSectionCompleteOn(top, SectionId(current_section_index),
                                           FALSE, NoneObj, Datetime(clock))
       IN  RerunOn(PageOf(sections[current_section_index + 2]), marked,
                   current_section_index + 1)
    /\ UNCHANGED <<quiz_submitted, clock, nonPageVars>>

\* take_content_page, "Complete Course" (lines 136-146)
ContentCompleteCourse ==
    /\ current_page = "take_content"
    /\ ~(current_section_index < Len(sections) - 1)
    /\ LET top == ContentTop(store, current_section_index)
           marked == MarkSectionCompleteOn(top, SectionId(current_section_index),
                                           FALSE, NoneObj, Datetime(clock))
       IN  RerunOn("course_index", MarkCourseCompletedOn(marked, Datetime(clock)),
                   current_section_index)
    /\ UNCHANGED <<quiz_submitted, clock, nonPageVars>>

\* take_quiz_page, "Submit Quiz" (lines 367-372)
QuizSubmit ==
    /\ current_page = "take_quiz"
    /\ ~quiz_submitted
    /\ Len(DictGet(RowOf(store).quiz_results, SectionId(current_section_index), <<>>))
           < MaxAttempts
    /\ RerunOn("take_quiz",
               MarkSectionCompleteOn(<<RowOf(store)>>, SectionId(current_section_index),
                                     TRUE, QuizPayload(SectionId(current_section_index)),
                                     Datetime(clock)),
               current_section_index)
    /\ quiz_submitted' = TRUE
    /\ UNCHANGED <<clock, nonPageVars>>

\* handle_navigation, "Back to Course Index"
QuizBack ==
    /\ current_page = "take_quiz"
    /\ RerunOn("course_index", <<RowOf(store)>>, current_section_index)
    /\ UNCHANGED <<quiz_submitted, clock, nonPageVars>>

\* handle_navigation, "Continue to Next Section" (lines 293-299)
QuizContinue ==
    /\ current_page = "take_quiz"
    /\ quiz_submitted
    /\ current_section_index < Len(sections) - 1
    /\ RerunOn("take_content", <<RowOf(store)>>, current_section_index + 1)
    /\ quiz_submitted' = FALSE
    /\ UNCHANGED <<clock, nonPageVars>>

\* handle_navigation, "Complete Course" (lines 300-305)
QuizCompleteCourse ==
    /\ current_page = "take_quiz"
    /\ quiz_submitted
    /\ ~(current_section_index < Len(sections) - 1)
    /\ RerunOn("course_index", NeverAwaited(<<RowOf(store)>>), current_section_index)
    /\ UNCHANGED <<quiz_submitted, clock, nonPageVars>>

\* time passes between two runs
TickPages ==
    /\ clock < MaxClock
    /\ clock' = clock + 1
    /\ UNCHANGED <<store, pageVars, validateVars, scoreVars, serializeVars, replayVars,
                   quizPageVars, editorVars, sess, calls>>

NextPages ==
    \/ ViewPage_Student
    \/ \E i \in 0..(MaxSections - 1) : OpenSection(i)
    \/ ContentBack
    \/ ContentMarkCompleteContinue
    \/ ContentCompleteCourse
    \/ QuizSubmit
    \/ QuizBack
    \/ QuizContinue
    \/ QuizCompleteCourse
    \/ TickPages

SpecPages == InitPages /\ [][NextPages]_vars

(***************************************************************************)
(* Claims about the student pages                                          *)
(***************************************************************************)
\* the stored status of the section at an index
StatusAt(st, section_index) == GetSectionStatus(RowOf(st), SectionId(section_index))

\* C27: driven by one session, a section stored as COMPLETED stays COMPLETED
\* through every run of the index, the content page and the quiz page; and a
\* run that starts and ends on the quiz page, which would show a call of
\* start_section, puts no section IN_PROGRESS and leaves the tracker's
\* current_section_index alone.
C27_CompletedStays ==
    [][/\ \A i \in 0..(MaxSections - 1) :
              StatusAt(store, i) = COMPLETED => StatusAt(store', i) = COMPLETED
       /\ (current_page = "take_quiz" /\ current_page' = "take_quiz")
              => /\ \A i \in 0..(MaxSections - 1) :
                        StatusAt(store', i) = IN_PROGRESS
                            => StatusAt(store, i) = IN_PROGRESS
                 /\ RowOf(store').current_section_index
                        = RowOf(store).current_section_index]_vars

\* the content page is open on a section that was completed before, after the
\* student went on to the quiz that follows and came back through the index
C27_Witness ==
    /\ current_page = "take_content"
    /\ StatusAt(store, current_section_index) = COMPLETED
    /\ Len(sections) = 2 /\ sections[2] = QUIZ
    /\ current_section_index = 0
    /\ StatusAt(store, 1) = COMPLETED

\* C28: a run in which 'Complete Course' is pressed on the final section ends
\* with the stored tracker completed and its completed_at set, on the content
\* page and on the quiz page alike.
C28_CompleteCourseMarksTracker ==
    [][(ContentCompleteCourse \/ QuizCompleteCourse)
          => /\ store' # <<>>
             /\ store'[1].completed = TRUE
             /\ store'[1].completed_at # NoneSeq]_vars

\* the part of C28 that holds: 'Complete Course' on the content page
C28_ContentCompleteCourse ==
    [][ContentCompleteCourse
          => /\ store' # <<>>
             /\ store'[1].completed = TRUE
             /\ store'[1].completed_at = Datetime(clock)
             /\ StatusAt(store', current_section_index) = COMPLETED]_vars

\* where 'Complete Course' on a final quiz section leads: back on the index
\* with the quiz submitted and its section COMPLETED, the tracker not completed
C28_Scenario ==
    /\ current_page = "course_index"
    /\ quiz_submitted
    /\ sections[Len(sections)] = QUIZ
    /\ current_section_index = Len(sections) - 1
    /\ StatusAt(store, current_section_index) = COMPLETED
    /\ store[1].completed = FALSE
    /\ store[1].completed_at = NoneSeq

====
